---- MODULE Spec2Model ----
(***************************************************************************)
(* A model of cargo-local-registry: the archive-name parser, the path      *)
(* sharder, the sync/add engine and the serve engine's writes to the       *)
(* registry directory R.                                                   *)
(*                                                                         *)
(* Strings are sequences of one-character strings, so that slicing,        *)
(* lower-casing, suffix stripping and byte-wise ordering are computed the  *)
(* way the Rust code computes them.                                        *)
(***************************************************************************)
EXTENDS Integers, Sequences, FiniteSets, TLC

VARIABLES
    crates,            \* R/*.crate: filename -> content
    index,             \* files under R/index: relative path -> content (tokens)
    dirs,              \* directories under R/index (relative paths)
    index_cache,       \* serve engine: crate name -> CachedIndex
    now,               \* the clock read by Instant::now()
    last,              \* the most recent operation, its plan and its outcome
    filename,          \* input of parse_crate_filename
    parsed,            \* its result
    crate_name,        \* input of get_index_path
    index_path,        \* its results (serve engine's and sync engine's)
    pc,                \* position of the caller of the two pure functions
    inflight,          \* index requests being handled: handler -> its position
    upstream_now,      \* how many versions the upstream index lists by now
    answered,          \* <<crate, body>> of the upstream bodies sent in full,
                       \* <<file, bytes>> of the archive responses with 200
    dependencies,      \* upstream registry: crate name -> its dependencies
    to_process,        \* add with dependencies: the queue of (name, req)
    processed,         \* the keys of the pairs that were added
    added              \* the pairs in the order they were added

vars == <<crates, index, dirs, index_cache, now, last,
          filename, parsed, crate_name, index_path, pc,
          inflight, upstream_now, answered,
          dependencies, to_process, processed, added>>

inflight_vars == <<inflight, upstream_now, answered>>
deps_vars     == <<dependencies, to_process, processed, added>>
registry_vars == <<crates, index, dirs, index_cache, now, last, inflight_vars,
                   deps_vars>>
serve_vars    == <<index_cache, now, inflight_vars>>
pure_vars     == <<filename, parsed, crate_name, index_path, pc, deps_vars>>

-----------------------------------------------------------------------------
(* Characters and strings                                                  *)

Letters == {"a", "b", "c", "A"}
Digits  == {"0", "1"}

\* The byte value of a character (ASCII): what str::cmp and sort() compare.
Ord(c) ==
    CASE c = "+" -> 43 [] c = "-" -> 45 [] c = "." -> 46
      [] c = "0" -> 48 [] c = "1" -> 49
      [] c = "A" -> 65
      [] c = "a" -> 97 [] c = "b" -> 98 [] c = "c" -> 99
      [] c = "e" -> 101 [] c = "r" -> 114 [] c = "t" -> 116

LowerChar(c) == IF c = "A" THEN "a" ELSE c

to_lowercase(s) == [i \in 1..Len(s) |-> LowerChar(s[i])]

\* Seq-of-characters literals used by the code.
DotCrate == <<".", "c", "r", "a", "t", "e">>

\* s[from..] in Rust's 0-based half-open notation is SubSeq(s, from+1, Len(s)).
Slice(s, from, to) == SubSeq(s, from + 1, to)

ends_with(s, suffix) ==
    /\ Len(s) >= Len(suffix)
    /\ SubSeq(s, Len(s) - Len(suffix) + 1, Len(s)) = suffix

\* Byte-wise lexicographic order on strings (a proper prefix is smaller).
RECURSIVE StrLess(_, _)
StrLess(s, t) ==
    IF t = <<>> THEN FALSE
    ELSE IF s = <<>> THEN TRUE
    ELSE IF Ord(Head(s)) # Ord(Head(t)) THEN Ord(Head(s)) < Ord(Head(t))
    ELSE StrLess(Tail(s), Tail(t))

\* The 1-based position of the first ch in s at or after position from, or 0.
RECURSIVE find_from(_, _, _)
find_from(s, ch, from) ==
    IF from > Len(s) THEN 0
    ELSE IF s[from] = ch THEN from
    ELSE find_from(s, ch, from + 1)

\* str::split(ch): the pieces between occurrences of ch (always at least one).
RECURSIVE split(_, _)
split(s, ch) ==
    LET p == find_from(s, ch, 1)
    IN  IF p = 0 THEN <<s>>
        ELSE <<SubSeq(s, 1, p - 1)>> \o split(SubSeq(s, p + 1, Len(s)), ch)

-----------------------------------------------------------------------------
(* semver::Version::parse, as far as acceptance goes                       *)

IsAllDigits(p) == \A i \in 1..Len(p) : p[i] \in Digits

IsIdentChars(p) == \A i \in 1..Len(p) : p[i] \in Letters \cup Digits \cup {"-"}

\* major, minor, patch: digits without a leading zero.
NumericIdentOk(p) ==
    /\ Len(p) > 0
    /\ IsAllDigits(p)
    /\ (Len(p) > 1 => p[1] # "0")

\* a pre-release identifier: [0-9A-Za-z-]+, numeric ones without leading zero.
PreIdentOk(p) ==
    /\ Len(p) > 0
    /\ IsIdentChars(p)
    /\ (IsAllDigits(p) /\ Len(p) > 1 => p[1] # "0")

\* a build-metadata identifier: [0-9A-Za-z-]+.
BuildIdentOk(p) == Len(p) > 0 /\ IsIdentChars(p)

VersionParseOk(s) ==
    LET plus  == find_from(s, "+", 1)
        head  == IF plus = 0 THEN s ELSE SubSeq(s, 1, plus - 1)
        build == IF plus = 0 THEN <<>> ELSE SubSeq(s, plus + 1, Len(s))
        dash  == find_from(head, "-", 1)
        core  == IF dash = 0 THEN head ELSE SubSeq(head, 1, dash - 1)
        pre   == IF dash = 0 THEN <<>> ELSE SubSeq(head, dash + 1, Len(head))
        nums  == split(core, ".")
        pres  == split(pre, ".")
        blds  == split(build, ".")
    IN  /\ Len(nums) = 3
        /\ \A i \in 1..3 : NumericIdentOk(nums[i])
        /\ (dash # 0 => \A i \in 1..Len(pres) : PreIdentOk(pres[i]))
        /\ (plus # 0 => \A i \in 1..Len(blds) : BuildIdentOk(blds[i]))

-----------------------------------------------------------------------------
(* parsing.rs: parse_crate_filename                                        *)

None == <<>>
Some(x) == <<x>>

\* One iteration of `for (idx, _) in stripped.match_indices('-')`, from the
\* dash at or after position from.
RECURSIVE try_dashes(_, _)
try_dashes(stripped, from) ==
    LET idx == find_from(stripped, "-", from)
    IN  IF idx = 0 THEN None
        ELSE LET potential_name    == SubSeq(stripped, 1, idx - 1)
                 potential_version == SubSeq(stripped, idx + 1, Len(stripped))
             IN  IF VersionParseOk(potential_version) /\ potential_name # <<>>
                 THEN Some(<<potential_name, potential_version>>)
                 ELSE try_dashes(stripped, idx + 1)

\* str::rfind('-'): the 1-based position of the last dash at or before
\* position from, or 0.
RECURSIVE rfind_dash(_, _)
rfind_dash(s, from) ==
    IF from = 0 THEN 0
    ELSE IF s[from] = "-" THEN from
    ELSE rfind_dash(s, from - 1)

\* Variant: the split is made at the last dash only.
parse_crate_filename_rsplit(f) ==
    IF ~ends_with(f, DotCrate) THEN None
    ELSE LET stripped == SubSeq(f, 1, Len(f) - Len(DotCrate))
             idx      == rfind_dash(stripped, Len(stripped))
             name     == SubSeq(stripped, 1, idx - 1)
             version  == SubSeq(stripped, idx + 1, Len(stripped))
         IN  IF idx # 0 /\ VersionParseOk(version) /\ name # <<>>
             THEN Some(<<name, version>>)
             ELSE None

\* Variant: the prefix is not required to be non-empty.
RECURSIVE try_dashes_any_prefix(_, _)
try_dashes_any_prefix(stripped, from) ==
    LET idx == find_from(stripped, "-", from)
    IN  IF idx = 0 THEN None
        ELSE IF VersionParseOk(SubSeq(stripped, idx + 1, Len(stripped)))
        THEN Some(<<SubSeq(stripped, 1, idx - 1),
                    SubSeq(stripped, idx + 1, Len(stripped))>>)
        ELSE try_dashes_any_prefix(stripped, idx + 1)

parse_crate_filename_any_prefix(f) ==
    IF ~ends_with(f, DotCrate) THEN None
    ELSE try_dashes_any_prefix(SubSeq(f, 1, Len(f) - Len(DotCrate)), 1)

parse_crate_filename(f) ==
    IF ~ends_with(f, DotCrate) THEN None
    ELSE try_dashes(SubSeq(f, 1, Len(f) - Len(DotCrate)), 1)

-----------------------------------------------------------------------------
(* index.rs and main.rs: get_index_path                                    *)
(* A path is the sequence of its components below R/index.                 *)

\* &name[..2] on a name shorter than two bytes panics: no path is produced.
PathPanic == <<>>

\* Variant: three-character names are sharded like two-character ones.
get_index_path_flat3(name) ==
    CASE Len(name) = 1 -> << <<"1">>, name >>
      [] Len(name) = 2 -> << <<"2">>, name >>
      [] Len(name) = 3 -> << <<"3">>, name >>
      [] Len(name) = 0 -> PathPanic
      [] OTHER         -> << Slice(name, 0, 2), Slice(name, 2, 4), name >>

\* index.rs: the name is used as given.
get_index_path(name) ==
    CASE Len(name) = 1 -> << <<"1">>, name >>
      [] Len(name) = 2 -> << <<"2">>, name >>
      [] Len(name) = 3 -> << <<"3">>, Slice(name, 0, 1), name >>
      [] Len(name) = 0 -> PathPanic
      [] OTHER         -> << Slice(name, 0, 2), Slice(name, 2, 4), name >>

\* Variant: the name is not lower-cased.
main_get_index_path_cased(name) ==
    CASE Len(name) = 1 -> << <<"1">>, name >>
      [] Len(name) = 2 -> << <<"2">>, name >>
      [] Len(name) = 3 -> << <<"3">>, Slice(name, 0, 1), name >>
      [] Len(name) = 0 -> PathPanic
      [] OTHER         -> << Slice(name, 0, 2), Slice(name, 2, 4), name >>

\* main.rs: the name is lower-cased first.
main_get_index_path(name) ==
    LET lname == to_lowercase(name)
    IN  CASE Len(lname) = 1 -> << <<"1">>, lname >>
          [] Len(lname) = 2 -> << <<"2">>, lname >>
          [] Len(lname) = 3 -> << <<"3">>, Slice(lname, 0, 1), lname >>
          [] Len(lname) = 0 -> PathPanic
          [] OTHER          -> << Slice(lname, 0, 2), Slice(lname, 2, 4), lname >>

-----------------------------------------------------------------------------
(* The registry directory R                                                *)
(*                                                                         *)
(* crates : file name -> bytes, for the files directly under R.            *)
(* index  : path below R/index -> bytes.  The bytes of an index file are a *)
(*          sequence of tokens: a token is either one serialized record or *)
(*          the newline byte, so that a line holding two records run       *)
(*          together, or none, can be told from a well-formed line.        *)
(* dirs   : the directories at and below R/index (<<>> is R/index).        *)

NoFiles == [x \in {} |-> 0]

Put(f, k, v) == [x \in DOMAIN f \cup {k} |-> IF x = k THEN v ELSE f[x]]

Remove(f, K) == [x \in DOMAIN f \ K |-> f[x]]

NL == [name |-> <<>>, vers |-> <<>>, enc |-> "nl"]

\* One serialized RegistryPackage.  enc tells the encodings apart whose bytes
\* differ for the same (name, vers): "cksum" is the sync engine's encoding
\* of a registry package, "nocksum" that of a git package (cksum is ""),
\* "upstream" a line copied from the upstream index.
Rec(name, vers, enc) == [name |-> name, vers |-> vers, enc |-> enc]

EncRank(e) == CASE e = "upstream" -> 0 [] e = "nocksum" -> 1 [] e = "cksum" -> 2

\* Byte order of two serialized records: {"name":"..","vers":"..",.. compares
\* by name, then vers, then the rest of the line.
RecLess(r, q) ==
    IF r.name # q.name THEN StrLess(r.name, q.name)
    ELSE IF r.vers # q.vers THEN StrLess(r.vers, q.vers)
    ELSE EncRank(r.enc) < EncRank(q.enc)

\* str::lines(): split at newlines; a final empty piece is not a line.
lines(content) ==
    LET pieces == split(content, NL)
    IN  IF pieces[Len(pieces)] = <<>>
        THEN SubSeq(pieces, 1, Len(pieces) - 1)
        ELSE pieces

\* serde_json::from_str of a line succeeds when the line is one record.
IsRecordLine(line) == Len(line) = 1

\* Vec::sort() of lines that are single records.
RECURSIVE insert_sorted(_, _)
insert_sorted(sorted, r) ==
    IF sorted = <<>> THEN <<r>>
    ELSE IF RecLess(r, Head(sorted)) THEN <<r>> \o sorted
    ELSE <<Head(sorted)>> \o insert_sorted(Tail(sorted), r)

\* Variant: the lines are left in the order they have.
sort_not(rs) == rs

RECURSIVE sort(_)
sort(rs) == IF rs = <<>> THEN <<>> ELSE insert_sorted(sort(Tail(rs)), Head(rs))

\* [&str]::join("\n")
RECURSIVE join(_)
join(rs) ==
    IF rs = <<>> THEN <<>>
    ELSE IF Len(rs) = 1 THEN <<rs[1]>>
    ELSE <<rs[1], NL>> \o join(Tail(rs))

\* fs::create_dir_all(path.parent()): every proper prefix of the path.
create_dir_all_parent(ds, path) ==
    ds \cup { SubSeq(path, 1, n) : n \in 0..(Len(path) - 1) }

\* main.rs: read(path).unwrap_or_default()
read_or_default(idx, path) == IF path \in DOMAIN idx THEN idx[path] ELSE <<>>

\* Variant: the previous contents are always read.
update_index_entry_keep_all(fs, path, line, version, keep_old_versions) ==
    LET ds   == create_dir_all_parent(fs.dirs, path)
        ls   == lines(read_or_default(fs.index, path))
    IN  IF \E i \in 1..Len(ls) : ~IsRecordLine(ls[i])
        THEN [index |-> fs.index, dirs |-> ds, panicked |-> TRUE]
        ELSE LET recs         == [i \in 1..Len(ls) |-> ls[i][1]]
                 prev_entries == SelectSeq(recs, LAMBDA r : r.vers # version)
             IN  [index    |-> Put(fs.index, path,
                                   join(sort(Append(prev_entries, line)))),
                  dirs     |-> ds,
                  panicked |-> FALSE]

\* Variant: a previous record of the incoming version is not dropped.
update_index_entry_append(fs, path, line, version, keep_old_versions) ==
    LET ds   == create_dir_all_parent(fs.dirs, path)
        prev == IF keep_old_versions THEN read_or_default(fs.index, path) ELSE <<>>
        ls   == lines(prev)
    IN  IF \E i \in 1..Len(ls) : ~IsRecordLine(ls[i])
        THEN [index |-> fs.index, dirs |-> ds, panicked |-> TRUE]
        ELSE LET recs == [i \in 1..Len(ls) |-> ls[i][1]]
             IN  [index    |-> Put(fs.index, path, join(sort(Append(recs, line)))),
                  dirs     |-> ds,
                  panicked |-> FALSE]

\* main.rs: update_index_entry.  fs is [index, dirs, panicked]; a line that
\* does not deserialize makes the unwrap() in the filter panic after the
\* directories were created and before the file is written.
\* Variant: the previous contents are never read.
update_index_entry_no_prev(fs, path, line, version, keep_old_versions) ==
    [index    |-> Put(fs.index, path, join(<<line>>)),
     dirs     |-> create_dir_all_parent(fs.dirs, path),
     panicked |-> FALSE]

update_index_entry(fs, path, line, version, keep_old_versions) ==
    LET ds   == create_dir_all_parent(fs.dirs, path)
        prev == IF keep_old_versions THEN read_or_default(fs.index, path) ELSE <<>>
        ls   == lines(prev)
    IN  IF \E i \in 1..Len(ls) : ~IsRecordLine(ls[i])
        THEN [index |-> fs.index, dirs |-> ds, panicked |-> TRUE]
        ELSE LET recs         == [i \in 1..Len(ls) |-> ls[i][1]]
                 prev_entries == SelectSeq(recs, LAMBDA r : r.vers # version)
                 new_contents == join(sort(Append(prev_entries, line)))
             IN  [index    |-> Put(fs.index, path, new_contents),
                  dirs     |-> ds,
                  panicked |-> FALSE]

-----------------------------------------------------------------------------
(* main.rs: the sync engine                                                *)

\* A resolved package: PackageId's name, version and kind of source.
Pkg(name, vers, source) == [name |-> name, vers |-> vers, source |-> source]

\* What the last operation did, as a client and the upstream saw it: the
\* request and the flags of the server, the response, the requests sent
\* upstream in their order, and whether the local file was read.
NoExchange ==
    [request |-> <<>>, proxy |-> FALSE, clean |-> FALSE, body |-> <<>>,
     ctype |-> "", upstream |-> <<>>, local_read |-> FALSE]

\* format!("{}-{}.crate", id.name(), id.version())
crate_filename(name, vers) == name \o <<"-">> \o vers \o DotCrate

\* Bytes of an archive: the upstream .crate of (name, vers), or the tarball
\* built from a git checkout, whose entry headers are filled from the files'
\* metadata (Header::set_metadata), here the stamp meta.
CrateBytes(name, vers) ==
    [name |-> name, vers |-> vers, kind |-> "crate", meta |-> 0]

ArchiveBytes(name, vers, meta) ==
    [name |-> name, vers |-> vers, kind |-> "archive", meta |-> meta]

\* What a file task that failed part-way leaves at its destination.
TornBytes(name, vers) ==
    [name |-> name, vers |-> vers, kind |-> "torn", meta |-> 0]

\* registry_pkg: the record of a package; cksum is empty without a checksum
\* in the resolve, which is the case of git packages.
registry_pkg(id) ==
    Rec(id.name, id.vers, IF id.source = "registry" THEN "cksum" ELSE "nocksum")

\* Phase 1: the packages that are vendored, in the resolver's order, each
\* with its destination, index file, record and version.
package_metadata(plan, git) ==
    LET kept == SelectSeq(plan, LAMBDA id :
                    \/ id.source = "registry"
                    \/ id.source = "git" /\ git)
    IN  [i \in 1..Len(kept) |->
            [id        |-> kept[i],
             dst       |-> crate_filename(kept[i].name, kept[i].vers),
             index_dst |-> main_get_index_path(kept[i].name),
             line      |-> registry_pkg(kept[i]),
             version   |-> kept[i].vers]]

\* Phase 2: the bytes a file task writes to its destination.
file_task_bytes(m, meta) ==
    IF m.id.source = "registry"
    THEN CrateBytes(m.id.name, m.id.vers)
    ELSE ArchiveBytes(m.id.name, m.id.vers, meta)

\* Variant: keep_old does not take no_delete into account.
RECURSIVE phase3_discard(_, _, _, _, _)
phase3_discard(fs, md, i, added_index, no_delete) ==
    IF i > Len(md) \/ fs.panicked THEN fs
    ELSE LET keep_old == md[i].index_dst \in added_index
             next     == update_index_entry(fs, md[i].index_dst, md[i].line,
                                            md[i].version, keep_old)
         IN  phase3_discard(next, md, i + 1,
                            added_index \cup {md[i].index_dst}, no_delete)

\* Phase 3: the index updates, in the order of package_metadata, from entry i.
\* keep_old is no_delete, or the file was already written in this run.
RECURSIVE phase3(_, _, _, _, _)
phase3(fs, md, i, added_index, no_delete) ==
    IF i > Len(md) \/ fs.panicked THEN fs
    ELSE LET keep_old == no_delete \/ md[i].index_dst \in added_index
             next     == update_index_entry(fs, md[i].index_dst, md[i].line,
                                            md[i].version, keep_old)
         IN  phase3(next, md, i + 1, added_index \cup {md[i].index_dst}, no_delete)

IsChildOf(p, d) == Len(p) = Len(d) + 1 /\ SubSeq(p, 1, Len(d)) = d

\* Variant: files are removed, directories are left as they are.
scan_delete_files_only(fs, keep) ==
    [index    |-> [p \in { q \in DOMAIN fs.index : q \in keep \/ Len(q) > 3 }
                     |-> fs.index[p]],
     dirs     |-> fs.dirs,
     panicked |-> fs.panicked]

\* scan_delete(R/index, 3, keep): a file reached within depth 3 that is not
\* kept is removed; a directory below R/index that is left without entries
\* is removed, children before parents; a directory reached with depth 0 is
\* left alone.
scan_delete(fs, keep) ==
    LET files == { p \in DOMAIN fs.index : p \in keep \/ Len(p) > 3 }
        HasEntry(d, ds) == \/ \E p \in files : IsChildOf(p, d)
                           \/ \E e \in ds : IsChildOf(e, d)
        deep  == { d \in fs.dirs : Len(d) >= 3 }
        dirs2 == { d \in fs.dirs : Len(d) = 2 /\ HasEntry(d, deep) }
        dirs1 == { d \in fs.dirs : Len(d) = 1 /\ HasEntry(d, dirs2) }
        root  == { d \in fs.dirs : Len(d) = 0 }
    IN  [index    |-> [p \in files |-> fs.index[p]],
         dirs     |-> root \cup dirs1 \cup dirs2 \cup deep,
         panicked |-> fs.panicked]

\* Variant: the result of Phase 2 is not looked at.
phase2_unchecked(failed) == TRUE

\* try_for_each(..)?: Phase 2 returned Ok, no file task failed (failed = 0).
phase2_completed(failed) == failed = 0

\* sync_lockfile.  plan is the resolver's output, meta the metadata stamp of
\* the git checkouts.  failed is the file task that returned an error (0:
\* none); it leaves its destination as it was (source not readable,
\* destination not creatable) or partly written (torn).  done are the file
\* tasks that ran to completion:
\* all of them when none failed, any of the others otherwise, since Phase 2
\* stops handing out tasks once one has failed.  Two file tasks with one
\* destination run in parallel: either may be the one whose bytes remain
\* (winner).
Sync(plan, git, no_delete, meta, failed) ==
    LET md    == package_metadata(plan, git)
        tasks == 1..Len(md)
    IN  /\ failed \in 0..Len(md)
        /\ \E done \in SUBSET (tasks \ {failed}) :
              /\ failed = 0 => done = tasks
              /\ LET dsts == { md[i].dst : i \in done }
                 IN  \E winner \in [dsts -> done], torn \in BOOLEAN :
                      /\ torn => failed # 0
                      /\ \A d \in dsts : md[winner[d]].dst = d
                      /\ LET left   == IF torn THEN { md[failed].dst } ELSE {}
                             copied == [f \in DOMAIN crates \cup dsts \cup left |->
                                           IF f \in left
                                           THEN TornBytes(md[failed].id.name,
                                                          md[failed].id.vers)
                                           ELSE IF f \in dsts
                                           THEN file_task_bytes(md[winner[f]], meta)
                                           ELSE crates[f]]
                             fs0 == [index |-> index, dirs |-> dirs, panicked |-> FALSE]
                             fs3 == IF phase2_completed(failed)
                                    THEN phase3(fs0, md, 1, {}, no_delete)
                                    ELSE fs0
                             added_index == { md[i].index_dst : i \in 1..Len(md) }
                             swept == /\ phase2_completed(failed)
                                      /\ ~fs3.panicked
                                      /\ ~no_delete
                             fs4 == IF swept THEN scan_delete(fs3, added_index) ELSE fs3
                         IN  /\ crates' = IF swept THEN [f \in dsts |-> copied[f]]
                                          ELSE copied
                             /\ index' = fs4.index
                             /\ dirs' = fs4.dirs
                             /\ last' = [op        |-> "sync",
                                         no_delete |-> no_delete,
                                         planned   |-> [i \in 1..Len(md) |-> md[i].id],
                                         status    |-> IF failed # 0 THEN "error"
                                                       ELSE IF fs3.panicked THEN "panic"
                                                       ELSE "ok",
                                         http      |-> NoExchange]
        /\ UNCHANGED <<serve_vars, pure_vars>>

\* add_crate / add_crate_internal: one crate of the upstream registry, its
\* archive written first, then its record with keep_old_versions = true.
Add(id) ==
    LET dst == crate_filename(id.name, id.vers)
        fs0 == [index |-> index, dirs |-> dirs, panicked |-> FALSE]
        fs1 == update_index_entry(fs0, main_get_index_path(id.name),
                                  Rec(id.name, id.vers, "cksum"), id.vers, TRUE)
    IN  /\ id.source = "registry"
        /\ crates' = Put(crates, dst, CrateBytes(id.name, id.vers))
        /\ index' = fs1.index
        /\ dirs' = fs1.dirs
        /\ last' = [op        |-> "add",
                    no_delete |-> TRUE,
                    planned   |-> <<id>>,
                    status    |-> IF fs1.panicked THEN "panic" ELSE "ok",
                    http      |-> NoExchange]
        /\ UNCHANGED <<serve_vars, pure_vars>>

-----------------------------------------------------------------------------
(* lib.rs, crates.rs: the serve engine                                     *)

\* The upstream registry the serve engine proxies: its crates, under their
\* canonical names, and their versions in the order of the index file.
UpstreamName(lname) ==
    IF lname = <<"a", "b">> THEN <<"A", "b">> ELSE lname

UpstreamVersions(lname) ==
    CASE lname = <<"a", "b">> ->
            << <<"1", ".", "0", ".", "0", "-", "1">>,
               <<"1", ".", "0", ".", "0">> >>
      [] lname = <<"c">> -> << <<"1", ".", "0", ".", "0">> >>
      [] OTHER -> <<>>

UpstreamHas(name, vers) ==
    \E i \in 1..Len(UpstreamVersions(to_lowercase(name))) :
        UpstreamVersions(to_lowercase(name))[i] = vers

\* The body of the upstream index file: one line per version, each ended
\* by a newline.
RECURSIVE index_body(_, _)
index_body(lname, versions) ==
    IF versions = <<>> THEN <<>>
    ELSE <<Rec(UpstreamName(lname), Head(versions), "upstream"), NL>>
         \o index_body(lname, Tail(versions))

UpstreamIndexBody(name) ==
    index_body(to_lowercase(name), UpstreamVersions(to_lowercase(name)))

\* crates.rs: remove_prior_versions.  The files it removes.
prior_versions(files, name, keep_version) ==
    { f \in DOMAIN files :
        /\ ends_with(f, DotCrate)
        /\ LET stripped == SubSeq(f, 1, Len(f) - Len(DotCrate))
               dash_pos == rfind_dash(stripped, Len(stripped))
           IN  /\ dash_pos # 0
               /\ SubSeq(stripped, 1, dash_pos - 1) = name
               /\ SubSeq(stripped, dash_pos + 1, Len(stripped)) # keep_version }

remove_prior_versions(files, name, keep_version) ==
    Remove(files, prior_versions(files, name, keep_version))

\* cached_content.contains("\"vers\":\"<version>\""): some record of the
\* content has this vers.
contains_vers(content, version) ==
    \E i \in 1..Len(content) : content[i] # NL /\ content[i].vers = version

\* lib.rs: cache_specific_index_version, given the outcome of its upstream
\* fetch.  The first line of the body whose vers is the version is cached;
\* fs is [index, dirs].
cache_specific_index_version(fs, name, version, clean, fetched) ==
    LET path  == get_index_path(name)
        ls    == lines(UpstreamIndexBody(name))
        hits  == { i \in 1..Len(ls) : IsRecordLine(ls[i]) /\ ls[i][1].vers = version }
        first == CHOOSE i \in hits : \A j \in hits : i <= j
        line  == ls[first]
        existing == read_or_default(fs.index, path)
    IN  IF ~fetched \/ hits = {} THEN fs
        ELSE IF clean
        THEN [index |-> Put(fs.index, path, line \o <<NL>>),
              dirs  |-> create_dir_all_parent(fs.dirs, path)]
        ELSE IF contains_vers(existing, version) THEN fs
        ELSE [index |-> Put(fs.index, path, existing \o line \o <<NL>>),
              dirs  |-> create_dir_all_parent(fs.dirs, path)]

\* An upstream request and whether it was answered with success.
Sent(req, ok) == [req |-> req, ok |-> ok]

\* An upstream request that brought nothing back, and why: "status" for a
\* response outside 2xx, "error" for a request that failed in transport or
\* whose body could not be read.
Failed(req, why) == [req |-> req, ok |-> FALSE, why |-> why]

download_failed_not_found(why) == "404"

\* serve_crate_file: the arms of the upstream download that answer an error.
download_failed(why) == IF why = "status" THEN "404" ELSE "500"

Response(op, status, exchange) ==
    [op |-> op, no_delete |-> FALSE, planned |-> <<>>, status |-> status,
     http |-> exchange]

\* Paths are sequences of components.  The registry directory, and what is
\* there besides it: a readable file outside R and the directories above it.
RegistryRoot == << <<"R">> >>

DotDot == <<".", ".">>

IndexDir == <<"i", "n", "d", "e", "x">>

Etc == <<"e", "t", "c">>

Passwd == <<"p", "a", "s", "s", "w", "d">>

OutsideBytes == [name |-> Passwd, vers |-> <<>>, kind |-> "outside", meta |-> 0]

\* What a file outside R holds.
OutsideContent(abs) == [OutsideBytes EXCEPT !.name = abs[Len(abs)]]

\* An archive kept outside R.
OutsideCrate == crate_filename(<<"c">>, <<"1", ".", "0", ".", "0">>)

OutsideFiles == { <<Etc, Passwd>>, <<Etc, OutsideCrate>> }

OutsideDirs == { <<>>, <<Etc>> }

\* Path::join of a relative path: the components are appended as they are.
path_join(base, rel) == base \o rel

\* Path::starts_with: base is a prefix of p, component by component.
path_starts_with(p, base) ==
    Len(p) >= Len(base) /\ SubSeq(p, 1, Len(base)) = base

IsDir(ds, abs) ==
    \/ abs \in OutsideDirs
    \/ abs = RegistryRoot
    \/ /\ path_starts_with(abs, Append(RegistryRoot, IndexDir))
       /\ SubSeq(abs, Len(RegistryRoot) + 2, Len(abs)) \in ds

\* The file the operating system opens for a path: a ".." component leaves
\* the directory reached so far, which has to exist.  None when the walk
\* fails.
RECURSIVE walk(_, _, _)
walk(ds, at, rest) ==
    IF rest = <<>> THEN Some(at)
    ELSE IF Head(rest) = DotDot
    THEN IF ~IsDir(ds, at) THEN None
         ELSE walk(ds, IF at = <<>> THEN at ELSE SubSeq(at, 1, Len(at) - 1),
                   Tail(rest))
    ELSE walk(ds, Append(at, Head(rest)), Tail(rest))

\* std::fs::read of an absolute path: the bytes, or None.
fs_read(cr, idx, ds, full_path) ==
    LET target == walk(ds, <<>>, full_path)
    IN  IF target = None THEN None
        ELSE LET abs == target[1]
                 rel == SubSeq(abs, Len(RegistryRoot) + 1, Len(abs))
             IN  IF abs \in OutsideFiles THEN Some(<<OutsideContent(abs)>>)
                 ELSE IF ~path_starts_with(abs, RegistryRoot) THEN None
                 ELSE IF Len(rel) = 1 /\ rel[1] \in DOMAIN cr
                 THEN Some(<<cr[rel[1]]>>)
                 ELSE IF Len(rel) > 1 /\ rel[1] = IndexDir
                         /\ Tail(rel) \in DOMAIN idx
                 THEN Some(idx[Tail(rel)])
                 ELSE None

\* Path::components of a decoded request segment: the text between the
\* separators, without the empty and the "." components.
RECURSIVE components(_, _)
components(s, acc) ==
    LET keep == IF acc = <<>> \/ acc = <<".">> THEN <<>> ELSE <<acc>>
    IN  IF s = <<>> THEN keep
        ELSE IF Head(s) = "/" THEN keep \o components(Tail(s), <<>>)
        ELSE components(Tail(s), Append(acc, Head(s)))

\* state.registry_path.join(&filename): an absolute filename replaces the
\* registry path.
crate_path(f) ==
    IF f # <<>> /\ f[1] = "/" THEN components(f, <<>>)
    ELSE path_join(RegistryRoot, components(f, <<>>))

\* Variant: the read of the local archive fails whatever R holds.
read_crate_never(cr, idx, ds, f) == None

\* std::fs::read(&crate_path) of serve_crate_file: the bytes, or None.
read_crate(cr, idx, ds, f) ==
    LET content == fs_read(cr, idx, ds, crate_path(f))
    IN  IF content = None THEN None ELSE content[1]

\* serve_crate_file: GET /<f>.  download is the outcome of the upstream
\* download, fetched that of the index fetch of the per-version cacher.
ServeCrate(f, enable_proxy, clean) ==
    LET crate_info == parse_crate_filename(f)
        Seen(body, ctype, upstream, local_read) ==
            [request |-> f, proxy |-> enable_proxy, clean |-> clean,
             body |-> body, ctype |-> ctype, upstream |-> upstream,
             local_read |-> local_read]
        octets == "application/octet-stream"
    IN  /\ UNCHANGED <<serve_vars, pure_vars>>
        /\ IF ~ends_with(f, DotCrate)
           THEN /\ last' = Response("crate", "404", Seen(<<>>, "", <<>>, FALSE))
                /\ UNCHANGED <<crates, index, dirs>>
           ELSE IF read_crate(crates, index, dirs, f) # None
           THEN /\ last' = Response("crate", "200",
                                    Seen(read_crate(crates, index, dirs, f),
                                         octets,
                                         <<>>, TRUE))
                /\ UNCHANGED <<crates, index, dirs>>
           ELSE IF ~enable_proxy
           THEN /\ last' = Response("crate", "404", Seen(<<>>, "", <<>>, TRUE))
                /\ UNCHANGED <<crates, index, dirs>>
           ELSE IF crate_info = None
           THEN /\ last' = Response("crate", "400", Seen(<<>>, "", <<>>, TRUE))
                /\ UNCHANGED <<crates, index, dirs>>
           ELSE LET name    == crate_info[1][1]
                    version == crate_info[1][2]
                    content == CrateBytes(UpstreamName(to_lowercase(name)), version)
                IN  \E download \in {"ok", "status", "error"} :
                      IF download = "ok"
                      THEN /\ UpstreamHas(name, version)
                           /\ \E fetched \in BOOLEAN :
                                LET kept == IF clean
                                            THEN remove_prior_versions(crates, name, version)
                                            ELSE crates
                                    fs1  == cache_specific_index_version(
                                                [index |-> index, dirs |-> dirs],
                                                name, version, clean, fetched)
                                IN  /\ crates' = Put(kept, f, content)
                                    /\ index' = fs1.index
                                    /\ dirs' = fs1.dirs
                                    /\ last' = Response("crate", "200",
                                          Seen(<<content>>, octets,
                                               <<Sent("download", TRUE),
                                                 Sent("index", fetched)>>, TRUE))
                      ELSE /\ last' = Response("crate", download_failed(download),
                                        Seen(<<>>, "",
                                             <<Failed("download", download)>>, TRUE))
                           /\ UNCHANGED <<crates, index, dirs>>

\* types.rs: DEFAULT_REFRESH_TTL_SECS, in units of the model's clock.
cache_ttl == 1

\* Variant: an entry that exists is not replaced.
cache_insert_if_absent(cache, name, content, t) ==
    IF name \in DOMAIN cache THEN cache
    ELSE Put(cache, name, [content |-> content, last_check |-> t])

\* cache.insert(crate_name, CachedIndex { content, last_check: now }) under
\* the write lock, after the whole body was received.
cache_insert(cache, name, content, t) ==
    Put(cache, name, [content |-> content, last_check |-> t])

\* Variant: an entry without content is made when none exists.
record_check_or_create(cache, name, t) ==
    IF name \in DOMAIN cache THEN [cache EXCEPT ![name].last_check = t]
    ELSE Put(cache, name, [content |-> <<>>, last_check |-> t])

\* After a failed refresh: cache.get_mut(&crate_name) sets last_check of an
\* entry that exists.
record_check(cache, name, t) ==
    IF name \in DOMAIN cache THEN [cache EXCEPT ![name].last_check = t]
    ELSE cache

\* Variant: the bounded refresh is tried whatever the proxy flag and the age
\* of the cache entry.
ServeIndex_always_refresh(segment, enable_proxy) ==
    LET name   == to_lowercase(segment)
        path   == get_index_path(name)
        cached == name \in DOMAIN index_cache
        fresh  == cached /\ now - index_cache[name].last_check < cache_ttl
        upstream_body == UpstreamIndexBody(name)
        text   == "text/plain"
        Seen(body, ctype, upstream, local_read) ==
            [request |-> segment, proxy |-> enable_proxy, clean |-> FALSE,
             body |-> body, ctype |-> ctype, upstream |-> upstream,
             local_read |-> local_read]
        Local(cache, sent) ==
            \* the local file, else the unbounded proxy
            IF path \in DOMAIN index
            THEN /\ last' = Response("index", "200",
                                     Seen(index[path], text, sent, TRUE))
                 /\ index_cache' = cache
                 /\ UNCHANGED <<index, dirs>>
            ELSE IF ~enable_proxy
            THEN /\ last' = Response("index", "404", Seen(<<>>, "", sent, TRUE))
                 /\ index_cache' = cache
                 /\ UNCHANGED <<index, dirs>>
            ELSE \E proxied \in {"ok", "status", "error"} :
                    /\ index_cache' = cache
                    /\ IF proxied = "ok"
                       THEN /\ upstream_body # <<>>
                            /\ index' = Put(index, path, upstream_body)
                            /\ dirs' = create_dir_all_parent(dirs, path)
                            /\ last' = Response("index", "200",
                                  Seen(upstream_body, text,
                                       Append(sent, Sent("proxy", TRUE)), TRUE))
                       ELSE /\ last' = Response("index",
                                         IF proxied = "status" THEN "404" ELSE "500",
                                         Seen(<<>>, "",
                                              Append(sent, Sent("proxy", FALSE)), TRUE))
                            /\ UNCHANGED <<index, dirs>>
    IN  /\ UNCHANGED <<crates, now, pure_vars, inflight_vars>>
        /\ IF path = PathPanic
           THEN /\ last' = Response("index", "abort", Seen(<<>>, "", <<>>, FALSE))
                /\ UNCHANGED <<index, dirs, index_cache>>
           ELSE \E refreshed \in BOOLEAN :
              IF refreshed
              THEN /\ upstream_body # <<>>
                   /\ index_cache' = cache_insert(index_cache, name,
                                                  upstream_body, now)
                   /\ last' = Response("index", "200",
                                 Seen(upstream_body, text,
                                      <<Sent("refresh", TRUE)>>, FALSE))
                   /\ UNCHANGED <<index, dirs>>
              ELSE Local(record_check(index_cache, name, now),
                         <<Sent("refresh", FALSE)>>)

\* serve_index_generic: GET /index/<..>/<segment>.  refreshed is the outcome
\* of the bounded refresh, proxied that of the unbounded upstream request.
ServeIndex(segment, enable_proxy) ==
    LET name   == to_lowercase(segment)
        path   == get_index_path(name)
        cached == name \in DOMAIN index_cache
        fresh  == cached /\ now - index_cache[name].last_check < cache_ttl
        upstream_body == UpstreamIndexBody(name)
        text   == "text/plain"
        Seen(body, ctype, upstream, local_read) ==
            [request |-> segment, proxy |-> enable_proxy, clean |-> FALSE,
             body |-> body, ctype |-> ctype, upstream |-> upstream,
             local_read |-> local_read]
        Local(cache, sent) ==
            \* the local file, else the unbounded proxy
            IF path \in DOMAIN index
            THEN /\ last' = Response("index", "200",
                                     Seen(index[path], text, sent, TRUE))
                 /\ index_cache' = cache
                 /\ UNCHANGED <<index, dirs>>
            ELSE IF ~enable_proxy
            THEN /\ last' = Response("index", "404", Seen(<<>>, "", sent, TRUE))
                 /\ index_cache' = cache
                 /\ UNCHANGED <<index, dirs>>
            ELSE \E proxied \in {"ok", "status", "error"} :
                    /\ index_cache' = cache
                    /\ IF proxied = "ok"
                       THEN /\ upstream_body # <<>>
                            /\ index' = Put(index, path, upstream_body)
                            /\ dirs' = create_dir_all_parent(dirs, path)
                            /\ last' = Response("index", "200",
                                  Seen(upstream_body, text,
                                       Append(sent, Sent("proxy", TRUE)), TRUE))
                       ELSE /\ last' = Response("index",
                                         IF proxied = "status" THEN "404" ELSE "500",
                                         Seen(<<>>, "",
                                              Append(sent, Sent("proxy", FALSE)), TRUE))
                            /\ UNCHANGED <<index, dirs>>
    IN  /\ UNCHANGED <<crates, now, pure_vars, inflight_vars>>
        /\ IF path = PathPanic
           THEN \* the slice in get_index_path panics: the handler's task
                \* ends and the request gets no response
                /\ last' = Response("index", "abort", Seen(<<>>, "", <<>>, FALSE))
                /\ UNCHANGED <<index, dirs, index_cache>>
           ELSE IF ~enable_proxy THEN Local(index_cache, <<>>)
           ELSE IF fresh
           THEN /\ last' = Response("index", "200",
                                    Seen(index_cache[name].content, text, <<>>, FALSE))
                /\ UNCHANGED <<index, dirs, index_cache>>
           ELSE \E refreshed \in BOOLEAN :
                   IF refreshed
                   THEN /\ upstream_body # <<>>
                        /\ index_cache' = cache_insert(index_cache, name,
                                                       upstream_body, now)
                        /\ last' = Response("index", "200",
                                      Seen(upstream_body, text,
                                           <<Sent("refresh", TRUE)>>, FALSE))
                        /\ UNCHANGED <<index, dirs>>
                   ELSE Local(record_check(index_cache, name, now),
                              <<Sent("refresh", FALSE)>>)

\* Path::extension: what follows the last dot of the last component, when
\* there is a dot that is not the first character.
RECURSIVE rfind_dot(_, _)
rfind_dot(s, from) ==
    IF from = 0 THEN 0
    ELSE IF s[from] = "." THEN from
    ELSE rfind_dot(s, from - 1)

extension(p) ==
    IF p = <<>> \/ p[Len(p)] = DotDot THEN None
    ELSE LET file_name == p[Len(p)]
             dot       == rfind_dot(file_name, Len(file_name))
         IN  IF dot <= 1 THEN None
             ELSE Some(SubSeq(file_name, dot + 1, Len(file_name)))

\* The content type serve_file sets, "" when it sets none.
content_type(p) ==
    LET ext == extension(p)
    IN  IF ext = None THEN ""
        ELSE IF ext[1] = <<"j", "s", "o", "n">> THEN "application/json"
        ELSE IF ext[1] \in { <<"t", "a", "r">>, <<"g", "z">> }
        THEN "application/gzip"
        ELSE "application/octet-stream"

\* serve_file: the fallback handler, GET /<file_path> with the leading
\* slashes trimmed.
ServeFile(file_path) ==
    LET full_path == path_join(RegistryRoot, file_path)
        content   == fs_read(crates, index, dirs, full_path)
        Seen(body, ctype, local_read) ==
            [request |-> file_path, proxy |-> FALSE, clean |-> FALSE,
             body |-> body, ctype |-> ctype, upstream |-> <<>>,
             local_read |-> local_read]
    IN  /\ UNCHANGED <<crates, index, dirs, serve_vars, pure_vars>>
        /\ IF ~path_starts_with(full_path, RegistryRoot)
           THEN last' = Response("file", "403", Seen(<<>>, "", FALSE))
           ELSE IF content # None
           THEN last' = Response("file", "200",
                                 Seen(content[1], content_type(full_path), TRUE))
           ELSE last' = Response("file", "404", Seen(<<>>, "", TRUE))

-----------------------------------------------------------------------------
(* lib.rs: serve_index_generic with proxy enabled, one step per stretch    *)
(* between two suspension points (.await), for requests handled at once.   *)

MaxHandlers == 2

Handlers == 1..MaxHandlers

\* The position of a handler: what it awaits, the path segment of its
\* request, the body of the response it is receiving and how much of it has
\* arrived.
Waiting(at, segment, full, received) ==
    [pc |-> at, segment |-> segment, full |-> full, received |-> received]

Idle == Waiting("idle", <<>>, <<>>, 0)

\* The body the upstream sends for the index file of a crate once n versions
\* are published.
UpstreamBodyAt(name, n) ==
    LET versions == UpstreamVersions(to_lowercase(name))
    IN  index_body(to_lowercase(name),
                   SubSeq(versions, 1, IF n < Len(versions) THEN n
                                       ELSE Len(versions)))

\* Variant: what has arrived of a body that broke off is the result.
bytes_await_partial(full, received, broke) == Some(SubSeq(full, 1, received))

\* response.bytes().await: the body once all of it has arrived, an error
\* when the transfer broke off or timed out.
bytes_await(full, received, broke) ==
    IF broke THEN None ELSE Some(SubSeq(full, 1, received))

\* lib.rs 190-283 after a refresh that failed: the check is recorded, the
\* local index file is read and answers the request; without one the index
\* is requested upstream again, without timeout.
refresh_failed(h) ==
    LET name == to_lowercase(inflight[h].segment)
        path == get_index_path(name)
    IN  /\ index_cache' = record_check(index_cache, name, now)
        /\ inflight' = [inflight EXCEPT ![h] =
                           IF path \in DOMAIN index THEN Idle
                           ELSE Waiting("proxy", inflight[h].segment, <<>>, 0)]

\* lib.rs 89-143: the age test under the read lock; a fresh entry answers the
\* request, otherwise the bounded refresh is sent.
IndexBegin(h, segment) ==
    LET name  == to_lowercase(segment)
        fresh == /\ name \in DOMAIN index_cache
                 /\ now - index_cache[name].last_check < cache_ttl
    IN  /\ inflight[h].pc = "idle"
        /\ inflight' = [inflight EXCEPT ![h] =
                           IF fresh THEN Idle
                           ELSE Waiting("refresh", segment, <<>>, 0)]
        /\ UNCHANGED <<crates, index, dirs, index_cache, now, last, pure_vars,
                       upstream_now, answered>>

\* lib.rs 143-188: request.send().await returns.
RefreshAnswered(h, outcome) ==
    LET name == to_lowercase(inflight[h].segment)
        body == UpstreamBodyAt(name, upstream_now)
    IN  /\ inflight[h].pc = "refresh"
        /\ IF outcome = "2xx"
           THEN /\ body # <<>>
                /\ inflight' = [inflight EXCEPT ![h] =
                                   Waiting("body", inflight[h].segment, body, 0)]
                /\ UNCHANGED index_cache
           ELSE refresh_failed(h)
        /\ UNCHANGED <<crates, index, dirs, now, last, pure_vars,
                       upstream_now, answered>>

\* One more piece of the body arrives; the upstream has sent the body in
\* full with its last piece.
BodyChunk(h) ==
    LET name == to_lowercase(inflight[h].segment)
    IN  /\ inflight[h].pc \in {"body", "proxy_body"}
        /\ inflight[h].received < Len(inflight[h].full)
        /\ inflight' = [inflight EXCEPT ![h].received = @ + 1]
        /\ answered' = IF inflight[h].received + 1 = Len(inflight[h].full)
                       THEN answered \cup { <<name, inflight[h].full>> }
                       ELSE answered
        /\ UNCHANGED <<crates, index, dirs, index_cache, now, last, pure_vars,
                       upstream_now>>

\* lib.rs 144-172: response.bytes().await of the refresh returns, with the
\* whole body or, the transfer broken off, with an error.
RefreshBodyEnds(h, broke) ==
    LET name    == to_lowercase(inflight[h].segment)
        content == bytes_await(inflight[h].full, inflight[h].received, broke)
    IN  /\ inflight[h].pc = "body"
        /\ ~broke => inflight[h].received = Len(inflight[h].full)
        /\ IF content # None
           THEN /\ index_cache' = cache_insert(index_cache, name, content[1], now)
                /\ inflight' = [inflight EXCEPT ![h] = Idle]
           ELSE refresh_failed(h)
        /\ UNCHANGED <<crates, index, dirs, now, last, pure_vars,
                       upstream_now, answered>>

\* lib.rs 227-278: the request without timeout returns.
ProxyAnswered(h, outcome) ==
    LET name == to_lowercase(inflight[h].segment)
        body == UpstreamBodyAt(name, upstream_now)
    IN  /\ inflight[h].pc = "proxy"
        /\ IF outcome = "2xx"
           THEN /\ body # <<>>
                /\ inflight' = [inflight EXCEPT ![h] =
                                   Waiting("proxy_body", inflight[h].segment,
                                           body, 0)]
           ELSE inflight' = [inflight EXCEPT ![h] = Idle]
        /\ UNCHANGED <<crates, index, dirs, index_cache, now, last, pure_vars,
                       upstream_now, answered>>

\* lib.rs 229-264: response.bytes().await of the proxied index returns; the
\* whole body is written to the local index file.
ProxyBodyEnds(h, broke) ==
    LET name    == to_lowercase(inflight[h].segment)
        path    == get_index_path(name)
        content == bytes_await(inflight[h].full, inflight[h].received, broke)
    IN  /\ inflight[h].pc = "proxy_body"
        /\ ~broke => inflight[h].received = Len(inflight[h].full)
        /\ inflight' = [inflight EXCEPT ![h] = Idle]
        /\ IF content # None
           THEN /\ index' = Put(index, path, content[1])
                /\ dirs' = create_dir_all_parent(dirs, path)
           ELSE UNCHANGED <<index, dirs>>
        /\ UNCHANGED <<crates, index_cache, now, last, pure_vars,
                       upstream_now, answered>>

\* The client goes away while the handler is suspended: its future is
\* dropped where it stands.
Cancelled(h) ==
    /\ inflight[h].pc # "idle"
    /\ inflight' = [inflight EXCEPT ![h] = Idle]
    /\ UNCHANGED <<crates, index, dirs, index_cache, now, last, pure_vars,
                   upstream_now, answered>>

\* A version is published upstream.
Publish ==
    /\ upstream_now < Len(UpstreamVersions(<<"a", "b">>))
    /\ upstream_now' = upstream_now + 1
    /\ UNCHANGED <<crates, index, dirs, index_cache, now, last, pure_vars,
                   inflight, answered>>

-----------------------------------------------------------------------------
(* Bounded inputs of the sync engine                                       *)

MaxPlan == 2
MaxMeta == 1

N_ab == <<"a", "b">>
N_Ab == <<"A", "b">>
N_c  == <<"c">>
V100  == <<"1", ".", "0", ".", "0">>
V100p == <<"1", ".", "0", ".", "0", "-", "1">>

\* Two versions of one crate, a name differing from it only in case, another
\* crate, a git package with the name and version of a registry package, and
\* a path package.
Packages ==
    { Pkg(N_ab, V100, "registry"), Pkg(N_ab, V100p, "registry"),
      Pkg(N_Ab, V100, "registry"), Pkg(N_c, V100, "registry"),
      Pkg(N_ab, V100, "git"), Pkg(N_c, V100, "path") }

RECURSIVE PlansUpTo(_)
PlansUpTo(n) ==
    IF n = 0 THEN { <<>> }
    ELSE LET prev == PlansUpTo(n - 1)
         IN  prev \cup { Append(p, id) : p \in prev,
                                         id \in Packages }

\* A resolve lists a package id once.
Plans == { p \in PlansUpTo(MaxPlan) :
             \A i, j \in 1..Len(p) : i # j => p[i] # p[j] }

\* The lock files synced to a registry that is also being served.
MaxServedPlan == 1

ServedPlans == { p \in PlansUpTo(MaxServedPlan) :
                   \A i, j \in 1..Len(p) : i # j => p[i] # p[j] }

-----------------------------------------------------------------------------
(* Bounded inputs of the pure functions                                    *)

MaxTokens  == 5
MaxNameLen == 5

\* Pieces that file names are assembled from: single characters, a complete
\* version core and a dashed name ending in a digit.
Tokens ==
    { <<"a">>, <<"1">>, <<"0">>, <<"-">>, <<"+">>, <<".">>,
      <<"1", ".", "0", ".", "1">>, <<"a", "-", "1">> }

RECURSIVE Concats(_)
Concats(n) ==
    IF n = 0 THEN { <<>> }
    ELSE LET prev == Concats(n - 1)
         IN  prev \cup { p \o t : p \in prev, t \in Tokens }

\* With the exact suffix, without it, and with a truncated one.
Suffixes == { DotCrate, <<>>, <<".", "c", "r", "a", "t">> }

ParseInputs(n) == { b \o x : b \in Concats(n), x \in Suffixes }

NameChars == {"a", "b", "A", "1", "-"}

RECURSIVE StringsUpTo(_)
StringsUpTo(n) ==
    IF n = 0 THEN { <<>> }
    ELSE LET prev == StringsUpTo(n - 1)
         IN  prev \cup { p \o <<c>> : p \in prev, c \in NameChars }

ShardInputs(n) == StringsUpTo(n) \ { <<>> }

\* No add with dependencies is running.
DepsIdle ==
    /\ dependencies = NoFiles
    /\ to_process = <<>>
    /\ processed = {}
    /\ added = <<>>

\* The registry right after real_main created R/index, and no request.
RegistryEmpty ==
    /\ crates = NoFiles
    /\ index = NoFiles
    /\ dirs = { <<>> }
    /\ index_cache = NoFiles
    /\ now = 0
    /\ last = [op |-> "none", no_delete |-> FALSE, planned |-> <<>>,
               status |-> "ok", http |-> NoExchange]
    /\ inflight = [h \in Handlers |-> Idle]
    /\ upstream_now = 1
    /\ answered = {}

RegistryIdle ==
    /\ DepsIdle
    /\ RegistryEmpty

PureIdle ==
    /\ filename = <<>>
    /\ parsed = None
    /\ crate_name = <<>>
    /\ index_path = [serve |-> PathPanic, sync |-> PathPanic]

(* The archive-name parser applied to one input.                           *)
InitParse ==
    /\ RegistryIdle
    /\ filename \in ParseInputs(MaxTokens)
    /\ parsed = None
    /\ crate_name = <<>>
    /\ index_path = [serve |-> PathPanic, sync |-> PathPanic]
    /\ pc = "call"

Parse ==
    /\ pc = "call"
    /\ parsed' = parse_crate_filename(filename)
    /\ pc' = "done"
    /\ UNCHANGED <<filename, crate_name, index_path, registry_vars>>

SpecParse == InitParse /\ [][Parse]_vars

(* The path sharder applied to one name.                                   *)
InitShard ==
    /\ RegistryIdle
    /\ crate_name \in ShardInputs(MaxNameLen)
    /\ index_path = [serve |-> PathPanic, sync |-> PathPanic]
    /\ filename = <<>>
    /\ parsed = None
    /\ pc = "call"

Shard ==
    /\ pc = "call"
    /\ index_path' = [serve |-> get_index_path(crate_name),
                      sync  |-> main_get_index_path(crate_name)]
    /\ pc' = "done"
    /\ UNCHANGED <<crate_name, filename, parsed, registry_vars>>

SpecShard == InitShard /\ [][Shard]_vars

\* The metadata stamps the run can read: none is read without a git checkout.
CheckoutMetas(plan, git) ==
    IF git /\ \E i \in 1..Len(plan) : plan[i].source = "git"
    THEN 0..MaxMeta
    ELSE {0}

(* The sync engine alone: sync runs whose file tasks all complete, and add *)
(* operations, on one registry.                                            *)
InitRegistry ==
    /\ RegistryIdle
    /\ PureIdle
    /\ pc = "idle"

NextSync ==
    \/ \E plan \in Plans, git \in BOOLEAN, no_delete \in BOOLEAN :
          \E meta \in CheckoutMetas(plan, git) :
             Sync(plan, git, no_delete, meta, 0)
    \/ \E id \in Packages : Add(id)

SpecSync == InitRegistry /\ [][NextSync]_vars

\* The lock files of sync runs in which a file task may fail: the two
\* versions of one crate and the same crate from a git checkout.
FailingPlans ==
    { p \in Plans :
        \A i \in 1..Len(p) :
            p[i] \in { Pkg(N_ab, V100, "registry"), Pkg(N_ab, V100p, "registry"),
                       Pkg(N_ab, V100, "git") } }

(* Sync runs in which any one file task may fail.                          *)
NextPhase2 ==
    \E plan \in FailingPlans, git \in BOOLEAN, no_delete \in BOOLEAN :
       \E meta \in CheckoutMetas(plan, git), failed \in 0..Len(plan) :
          Sync(plan, git, no_delete, meta, failed)

SpecPhase2 == InitRegistry /\ [][NextPhase2]_vars

\* Requests to the archive handler: a name with an upper-case letter, a
\* pre-release version, a name without a version and one without suffix.
ServeFiles ==
    { crate_filename(N_Ab, V100), crate_filename(N_ab, V100p),
      N_ab \o DotCrate, N_ab }

\* Last path segments of requests to the index handler.
ServeSegments == { N_ab, N_Ab }

(* The registry under the sync engine and the serve engine; the file tasks *)
(* of its sync runs all complete.                                          *)
Next ==
    \/ \E plan \in ServedPlans, git \in BOOLEAN, no_delete \in BOOLEAN :
          \E meta \in CheckoutMetas(plan, git) :
             Sync(plan, git, no_delete, meta, 0)
    \/ \E id \in Packages : Add(id)
    \/ \E f \in ServeFiles, enable_proxy \in BOOLEAN, clean \in BOOLEAN :
          ServeCrate(f, enable_proxy, clean)
    \/ \E segment \in ServeSegments, enable_proxy \in BOOLEAN :
          ServeIndex(segment, enable_proxy)

Spec == InitRegistry /\ [][Next]_vars

\* Time passes, up to MaxTime.
MaxTime == 2

Tick ==
    /\ now < MaxTime
    /\ now' = now + 1
    /\ UNCHANGED <<crates, index, dirs, index_cache, last, pure_vars,
                   inflight_vars>>

\* The crates added to the registry that is then served.
ServedPackages == { Pkg(N_ab, V100, "registry"), Pkg(N_ab, V100p, "registry") }

\* Requests to the archive handler of a server with either flag: also the
\* other version of the crate with the pre-release version.
ProxiedFiles == ServeFiles \cup { crate_filename(N_ab, V100) }

\* Requests that reach the fallback handler: out of R to a file that exists
\* and to one that does not, and within R.
FallbackPaths ==
    { <<DotDot, Etc, Passwd>>, <<DotDot, Passwd>>,
      <<Etc, DotDot, crate_filename(N_ab, V100)>>, <<Etc, Passwd>> }

(* The server: its three handlers on a registry that crates are added to,  *)
(* and its clock.                                                          *)
NextServe ==
    \/ \E id \in ServedPackages : Add(id)
    \/ \E f \in ProxiedFiles, enable_proxy \in BOOLEAN, clean \in BOOLEAN :
          ServeCrate(f, enable_proxy, clean)
    \/ \E segment \in ServeSegments, enable_proxy \in BOOLEAN :
          ServeIndex(segment, enable_proxy)
    \/ \E file_path \in FallbackPaths : ServeFile(file_path)
    \/ Tick

SpecServe == InitRegistry /\ [][NextServe]_vars

(* The index handler with proxy enabled, its requests interleaved at their  *)
(* suspension points, while versions are published and time passes.         *)
NextInflight ==
    \/ \E h \in Handlers, segment \in ServeSegments : IndexBegin(h, segment)
    \/ \E h \in Handlers, outcome \in {"2xx", "status", "error"} :
          RefreshAnswered(h, outcome)
    \/ \E h \in Handlers : BodyChunk(h)
    \/ \E h \in Handlers, broke \in BOOLEAN : RefreshBodyEnds(h, broke)
    \/ \E h \in Handlers, outcome \in {"2xx", "status", "error"} :
          ProxyAnswered(h, outcome)
    \/ \E h \in Handlers, broke \in BOOLEAN : ProxyBodyEnds(h, broke)
    \/ \E h \in Handlers : Cancelled(h)
    \/ Publish
    \/ Tick

SpecInflight == InitRegistry /\ [][NextInflight]_vars

\* The lock files synced to a registry whose index files the server has
\* written too: up to two of the versions of one crate and another crate.
OrderPlans ==
    { p \in Plans :
        \A i \in 1..Len(p) :
            p[i] \in { Pkg(N_ab, V100, "registry"), Pkg(N_ab, V100p, "registry"),
                       Pkg(N_c, V100, "registry") } }

(* Sync runs of up to two packages on a registry that add and a server     *)
(* with proxy have written.                                                *)
NextOrder ==
    \/ \E plan \in OrderPlans, no_delete \in BOOLEAN :
          Sync(plan, FALSE, no_delete, 0, 0)
    \/ Add(Pkg(N_ab, V100, "registry"))
    \/ ServeCrate(crate_filename(N_ab, V100p), TRUE, FALSE)

SpecOrder == InitRegistry /\ [][NextOrder]_vars

\* Last path segments of requests to the index handler, of every length the
\* sharder tells apart: also the empty segment of a path that ends with a
\* slash.
IndexSegments ==
    ServeSegments \cup { <<>>, N_c, <<"a", "b", "c">>,
                          <<"a", "b", "c", "d", "e">> }

(* The index handler, with and without proxy, under requests for every     *)
(* kind of path, on a registry to which crates are added as time passes.   *)
NextIndexPaths ==
    \/ \E id \in ServedPackages : Add(id)
    \/ \E segment \in IndexSegments, enable_proxy \in BOOLEAN :
          ServeIndex(segment, enable_proxy)
    \/ Tick

SpecIndexPaths == InitRegistry /\ [][NextIndexPaths]_vars

-----------------------------------------------------------------------------
(* main.rs: add_crate next to a running server, one step per write to the  *)
(* index file, so that the index handler can read between two of them.     *)

\* The process that runs add: it is the only writer of R in this section.
Writer == 1

\* The position of update_index_entry between File::create and the end of
\* write_all: the package, the file as it was before (None: no file), the
\* new contents and how much of them is written.
Writing(id, prev, full, written) ==
    [pc |-> "write", segment |-> id.name, full |-> full, received |-> written,
     prev |-> prev, id |-> id]

\* add_crate_internal up to File::create(index_path) in update_index_entry:
\* the archive is written, the previous records are read and the new contents
\* computed, and the index file is created or truncated.
AddCreate(id) ==
    LET dst  == crate_filename(id.name, id.vers)
        path == main_get_index_path(id.name)
        fs0  == [index |-> index, dirs |-> dirs, panicked |-> FALSE]
        fs1  == update_index_entry(fs0, path, Rec(id.name, id.vers, "cksum"),
                                   id.vers, TRUE)
        prev == IF path \in DOMAIN index THEN Some(index[path]) ELSE None
    IN  /\ inflight[Writer].pc = "idle"
        /\ id.source = "registry"
        /\ crates' = Put(crates, dst, CrateBytes(id.name, id.vers))
        /\ dirs' = fs1.dirs
        /\ IF fs1.panicked
           THEN /\ last' = [op        |-> "add",
                            no_delete |-> TRUE,
                            planned   |-> <<id>>,
                            status    |-> "panic",
                            http      |-> NoExchange]
                /\ UNCHANGED <<index, inflight>>
           ELSE /\ index' = Put(index, path, <<>>)
                /\ inflight' = [inflight EXCEPT ![Writer] =
                                   Writing(id, prev, fs1.index[path], 0)]
                /\ UNCHANGED last
        /\ UNCHANGED <<index_cache, now, upstream_now, answered, pure_vars>>

\* write_all: one more piece of new_contents is in the file; with the last
\* piece add returns.
AddWrite ==
    LET w       == inflight[Writer]
        path    == main_get_index_path(w.id.name)
        written == w.received + 1
    IN  /\ w.pc = "write"
        /\ written <= Len(w.full)
        /\ index' = Put(index, path, SubSeq(w.full, 1, written))
        /\ IF written = Len(w.full)
           THEN /\ inflight' = [inflight EXCEPT ![Writer] = Idle]
                /\ last' = [op        |-> "add",
                            no_delete |-> TRUE,
                            planned   |-> <<w.id>>,
                            status    |-> "ok",
                            http      |-> NoExchange]
           ELSE /\ inflight' = [inflight EXCEPT ![Writer].received = written]
                /\ UNCHANGED last
        /\ UNCHANGED <<crates, dirs, index_cache, now, upstream_now, answered,
                       pure_vars>>

\* The crates added while the registry is served: the served ones and one
\* that is not requested.
RewritePackages == ServedPackages \cup { Pkg(N_c, V100, "registry") }

(* add operations, and a server without proxy answering index requests     *)
(* while they run.                                                         *)
NextRewrite ==
    \/ \E id \in RewritePackages : AddCreate(id)
    \/ AddWrite
    \/ \E segment \in ServeSegments : ServeIndex(segment, FALSE)

SpecRewrite == InitRegistry /\ [][NextRewrite]_vars

\* Decoded last segments of requests to the archive handler: a plain name,
\* ../etc/c-1.0.0.crate and /etc/c-1.0.0.crate, which exist outside R,
\* ../ab-1.0.0.crate, which does not, index/../ab-1.0.0.crate, which is a
\* child of R once R/index exists, and a name the upstream has.
DecodedFiles ==
    { crate_filename(N_c, V100),
      DotDot \o <<"/">> \o Etc \o <<"/">> \o OutsideCrate,
      <<"/">> \o Etc \o <<"/">> \o OutsideCrate,
      DotDot \o <<"/">> \o crate_filename(N_ab, V100),
      IndexDir \o <<"/">> \o DotDot \o <<"/">> \o crate_filename(N_ab, V100),
      crate_filename(N_ab, V100p) }

(* The archive handler on decoded segments, on a registry that crates are  *)
(* added to.                                                               *)
NextTraversal ==
    \/ \E id \in RewritePackages : Add(id)
    \/ \E f \in DecodedFiles, enable_proxy \in BOOLEAN, clean \in BOOLEAN :
          ServeCrate(f, enable_proxy, clean)

SpecTraversal == InitRegistry /\ [][NextTraversal]_vars

-----------------------------------------------------------------------------
(* lib.rs: serve_crate_file with proxy enabled and clean disabled, one step *)
(* per suspension point and per file system call, for requests handled at  *)
(* once on the threads of the runtime.                                     *)

\* The archives requested at once: the two versions of one crate.
RacedFiles == { crate_filename(N_ab, V100), crate_filename(N_ab, V100p) }

\* The upstream bytes of the archive a request names.
ContentOf(f) ==
    LET crate_info == parse_crate_filename(f)
    IN  CrateBytes(UpstreamName(to_lowercase(crate_info[1][1])),
                   crate_info[1][2])

\* lib.rs 286-327: std::fs::read(&crate_path) answers the request with the
\* bytes it finds; without a file the download is requested upstream.
ArchiveBegin(h, f) ==
    /\ inflight[h].pc = "idle"
    /\ parse_crate_filename(f) # None
    /\ IF read_crate(crates, index, dirs, f) # None
       THEN /\ answered' = answered \cup
                          { <<f, read_crate(crates, index, dirs, f)[1]>> }
            /\ UNCHANGED inflight
       ELSE /\ inflight' = [inflight EXCEPT ![h] = Waiting("download", f, <<>>, 0)]
            /\ UNCHANGED answered
    /\ UNCHANGED <<crates, index, dirs, index_cache, now, last, pure_vars,
                   upstream_now>>

\* lib.rs 328-332, 377-397: send().await and bytes().await return; without a
\* body the request is answered 404 or 500.
ArchiveDownloaded(h, download) ==
    LET f          == inflight[h].segment
        crate_info == parse_crate_filename(f)
    IN  /\ inflight[h].pc = "download"
        /\ IF download = "ok"
           THEN /\ UpstreamHas(crate_info[1][1], crate_info[1][2])
                /\ inflight' = [inflight EXCEPT ![h] = Waiting("create", f, <<>>, 0)]
           ELSE inflight' = [inflight EXCEPT ![h] = Idle]
        /\ UNCHANGED <<crates, index, dirs, index_cache, now, last, pure_vars,
                       upstream_now, answered>>

\* lib.rs 347: std::fs::write(&crate_path, &content) creates or truncates the
\* file.
ArchiveCreate(h) ==
    LET f          == inflight[h].segment
        crate_info == parse_crate_filename(f)
    IN  /\ inflight[h].pc = "create"
        /\ crates' = Put(crates, f, TornBytes(ContentOf(f).name, ContentOf(f).vers))
        /\ inflight' = [inflight EXCEPT ![h] = Waiting("write", f, <<>>, 0)]
        /\ UNCHANGED <<index, dirs, index_cache, now, last, pure_vars,
                       upstream_now, answered>>

\* lib.rs 347: std::fs::write has written the content; the per-version cacher
\* requests the index upstream (lib.rs 354-361, 469).
ArchiveWrite(h) ==
    LET f == inflight[h].segment
    IN  /\ inflight[h].pc = "write"
        /\ crates' = Put(crates, f, ContentOf(f))
        /\ inflight' = [inflight EXCEPT ![h] = Waiting("fetch", f, <<>>, 0)]
        /\ UNCHANGED <<index, dirs, index_cache, now, last, pure_vars,
                       upstream_now, answered>>

\* lib.rs 469-499: the cacher's fetch returns.  With the line of the version
\* it reads the local index file; a file that has the version, a fetch that
\* failed or a body without the version end the cacher, and the request is
\* answered with the content (lib.rs 369-375).
CacherFetched(h, fetched) ==
    LET f          == inflight[h].segment
        crate_info == parse_crate_filename(f)
        name       == crate_info[1][1]
        version    == crate_info[1][2]
        path  == get_index_path(name)
        ls    == lines(UpstreamIndexBody(name))
        hits  == { i \in 1..Len(ls) : IsRecordLine(ls[i]) /\ ls[i][1].vers = version }
        first == CHOOSE i \in hits : \A j \in hits : i <= j
        existing == read_or_default(index, path)
    IN  /\ inflight[h].pc = "fetch"
        /\ IF ~fetched \/ hits = {} \/ contains_vers(existing, version)
           THEN /\ inflight' = [inflight EXCEPT ![h] = Idle]
                /\ answered' = answered \cup { <<f, ContentOf(f)>> }
           ELSE /\ inflight' = [inflight EXCEPT ![h] =
                                   Waiting("cache", f,
                                           existing \o ls[first] \o <<NL>>, 0)]
                /\ UNCHANGED answered
        /\ UNCHANGED <<crates, index, dirs, index_cache, now, last, pure_vars,
                       upstream_now>>

\* lib.rs 501-514: create_dir_all and std::fs::write(&index_path, ..) of the
\* cacher; the request is answered with the content.
CacherWrite(h) ==
    LET f    == inflight[h].segment
        path == get_index_path(parse_crate_filename(f)[1][1])
    IN  /\ inflight[h].pc = "cache"
        /\ index' = Put(index, path, inflight[h].full)
        /\ dirs' = create_dir_all_parent(dirs, path)
        /\ inflight' = [inflight EXCEPT ![h] = Idle]
        /\ answered' = answered \cup { <<f, ContentOf(f)>> }
        /\ UNCHANGED <<crates, index_cache, now, last, pure_vars, upstream_now>>

(* The archive handler with proxy enabled, its requests running at once.    *)
NextRace ==
    \/ \E h \in Handlers, f \in RacedFiles : ArchiveBegin(h, f)
    \/ \E h \in Handlers, download \in {"ok", "status", "error"} :
          ArchiveDownloaded(h, download)
    \/ \E h \in Handlers : ArchiveCreate(h)
    \/ \E h \in Handlers : ArchiveWrite(h)
    \/ \E h \in Handlers, fetched \in BOOLEAN : CacherFetched(h, fetched)
    \/ \E h \in Handlers : CacherWrite(h)

SpecRace == InitRegistry /\ [][NextRace]_vars

-----------------------------------------------------------------------------
(* main.rs: add_crate_with_deps, one step per turn of its loop.            *)

MaxDeps == 2

\* RegistryDependency: the name the depending crate uses, the version
\* requirement, the kind ("none": no kind is given) and, for a renamed
\* dependency, the name of the package.
Dep(name, req, kind, package) ==
    [name |-> name, req |-> req, kind |-> kind, package |-> package]

\* The dependencies a crate of the upstream registry can have, in the order
\* of deps.sort(): on itself or on the other crate under either
\* requirement, on ab under the name c, on c under the name x, a dev
\* dependency and a build dependency on a crate that the registry does not
\* have.
DepPool ==
    << Dep(N_ab, "*", "none", None),
       Dep(N_ab, "^1", "normal", None),
       Dep(N_c, "^1", "none", None),
       Dep(N_c, "^1", "none", Some(N_ab)),
       Dep(<<"x">>, "^1", "none", Some(N_c)),
       Dep(N_c, "*", "dev", None),
       Dep(<<"z", "z">>, "*", "build", None) >>

\* The entries of the pool at the positions S, in the pool's order.
PickDeps(S) ==
    LET chosen == SelectSeq([i \in 1..Len(DepPool) |-> i], LAMBDA i : i \in S)
    IN  [k \in 1..Len(chosen) |-> DepPool[chosen[k]]]

DepLists ==
    { PickDeps(S) : S \in { T \in SUBSET (1..Len(DepPool)) :
                                Cardinality(T) <= MaxDeps } }

\* The crates of the upstream registry that add can resolve.
DepCrates == { N_ab, N_c }

\* source.query and the choice of the summary: the highest version that the
\* requirement matches; neither requirement matches a pre-release.
ResolveCrate(name, req) ==
    IF name \in DepCrates THEN Some(Pkg(name, V100, "registry")) ELSE None

\* Variant: dependencies of every kind are followed.
is_followed_any(dep) == TRUE

\* dep.kind.is_none() || dep.kind.as_deref() == Some("normal")
is_followed(dep) == dep.kind \in {"none", "normal"}

\* dep.package.as_deref().unwrap_or(&dep.name)
real_name(dep) == IF dep.package # None THEN dep.package[1] ELSE dep.name

\* The pairs pushed for the dependencies deps, with done the keys processed.
RECURSIVE push_deps(_, _)
push_deps(deps, done) ==
    IF deps = <<>> THEN <<>>
    ELSE LET dep == Head(deps)
         IN  (IF is_followed(dep) /\ <<dep.name, dep.req>> \notin done
              THEN << <<real_name(dep), dep.req>> >>
              ELSE <<>>)
             \o push_deps(Tail(deps), done)

\* One turn of the loop: the pair at the front of the queue is skipped when
\* its key is processed; otherwise the crate is added, its key processed
\* and its followed dependencies are queued.  An add that fails ends
\* add_crate_with_deps with its error.
AddNextCrate ==
    LET cur  == Head(to_process)
        id   == ResolveCrate(cur[1], cur[2])
        dst  == crate_filename(id[1].name, id[1].vers)
        fs0  == [index |-> index, dirs |-> dirs, panicked |-> FALSE]
        fs1  == update_index_entry(fs0, main_get_index_path(id[1].name),
                                   Rec(id[1].name, id[1].vers, "cksum"),
                                   id[1].vers, TRUE)
        done == processed \cup {cur}
        Outcome(planned, status) ==
            [op |-> "add", no_delete |-> TRUE, planned |-> planned,
             status |-> status, http |-> NoExchange]
    IN  /\ pc = "call"
        /\ to_process # <<>>
        /\ IF cur \in processed
           THEN /\ to_process' = Tail(to_process)
                /\ UNCHANGED <<crates, index, dirs, last, processed, added, pc>>
           ELSE IF id = None
           THEN /\ last' = Outcome(<<>>, "error")
                /\ pc' = "done"
                /\ UNCHANGED <<crates, index, dirs, to_process, processed, added>>
           ELSE /\ crates' = Put(crates, dst, CrateBytes(id[1].name, id[1].vers))
                /\ index' = fs1.index
                /\ dirs' = fs1.dirs
                /\ IF fs1.panicked
                   THEN /\ last' = Outcome(<<id[1]>>, "panic")
                        /\ pc' = "done"
                        /\ UNCHANGED <<to_process, processed, added>>
                   ELSE /\ last' = Outcome(<<id[1]>>, "ok")
                        /\ processed' = done
                        /\ added' = Append(added, cur)
                        /\ to_process' = Tail(to_process)
                                           \o push_deps(dependencies[id[1].name], done)
                        /\ UNCHANGED pc
        /\ UNCHANGED <<serve_vars, dependencies, filename, parsed, crate_name,
                       index_path>>

\* The queue is empty: "Completed" is reported and add returns.
AddCompleted ==
    /\ pc = "call"
    /\ to_process = <<>>
    /\ pc' = "done"
    /\ UNCHANGED <<registry_vars, filename, parsed, crate_name, index_path>>

\* add --with-deps of either crate, without a version, on an empty registry,
\* for every dependency relation of the upstream registry.
InitDeps ==
    /\ RegistryEmpty
    /\ PureIdle
    /\ pc = "call"
    /\ dependencies \in [DepCrates -> DepLists]
    /\ \E root \in DepCrates : to_process = << <<root, "*">> >>
    /\ processed = {}
    /\ added = <<>>

NextDeps ==
    \/ AddNextCrate
    \/ AddCompleted

SpecDeps == InitDeps /\ [][NextDeps]_vars /\ WF_vars(NextDeps)

(***************************************************************************)
(* Properties of parse_crate_filename (SpecParse)                          *)
(***************************************************************************)
HasDot(s) == \E i \in 1..Len(s) : s[i] = "."

\* The input without its ".crate" suffix (only used when the suffix is there).
Stripped(f) == SubSeq(f, 1, Len(f) - Len(DotCrate))

\* f is name ++ "-" ++ vers ++ ".crate" with the dash at position k.
IsNameDashVers(f, k) ==
    /\ ends_with(f, DotCrate)
    /\ k \in 2..Len(Stripped(f))
    /\ f[k] = "-"
    /\ VersionParseOk(SubSeq(Stripped(f), k + 1, Len(Stripped(f))))

NameAt(f, k) == SubSeq(f, 1, k - 1)
VersAt(f, k) == SubSeq(Stripped(f), k + 1, Len(Stripped(f)))

\* C9 (as stated): for every input <name>-<vers>.crate with a valid semantic
\* version and a non-empty name, the parser returns exactly (name, vers).
C9_RecoversEveryName ==
    pc = "done" =>
        \A k \in 1..Len(filename) :
            IsNameDashVers(filename, k) =>
                parsed = Some(<<NameAt(filename, k), VersAt(filename, k)>>)

\* C9 (amended): for every input <name>-<vers>.crate with a valid semantic
\* version and a non-empty name that contains no '.', the parser returns
\* exactly (name, vers); the name may contain dashes and end in digits.
C9_RecoversDotFreeName ==
    pc = "done" =>
        \A k \in 1..Len(filename) :
            (IsNameDashVers(filename, k) /\ ~HasDot(NameAt(filename, k))) =>
                parsed = Some(<<NameAt(filename, k), VersAt(filename, k)>>)

\* A name with a dash that ends in a digit, and a version with a pre-release.
C9_Witness ==
    /\ pc = "done"
    /\ filename = <<"a", "-", "1", "-", "1", ".", "0", ".", "1", "-", "1">> \o DotCrate
    /\ parsed = Some(<< <<"a", "-", "1">>, <<"1", ".", "0", ".", "1", "-", "1">> >>)

\* The dash positions of the stripped input at which a split is acceptable.
QualifyingDashes(f) == { k \in 1..Len(f) : IsNameDashVers(f, k) }

DirSegments(path) == Len(path) - 1

IsLowercase(s) == to_lowercase(s) = s

\* C8 (as stated): for a non-empty lower-case name, 1, 1, 2 and 3 directory
\* segments precede the file name for names of length 1, 2, 3 and 4 or
\* more, and the file name is the name.
C8_SegmentCounts ==
    (pc = "done" /\ IsLowercase(crate_name)) =>
        \A path \in {index_path.serve, index_path.sync} :
            /\ Len(crate_name) = 1 => DirSegments(path) = 1
            /\ Len(crate_name) = 2 => DirSegments(path) = 1
            /\ Len(crate_name) = 3 => DirSegments(path) = 2
            /\ Len(crate_name) >= 4 => DirSegments(path) = 3
            /\ path[Len(path)] = crate_name

\* C8 (amended): for a non-empty lower-case name, 1, 1, 2 and 2 directory
\* segments precede the file name for names of length 1, 2, 3 and 4 or
\* more, and the file name is the name.
C8_SegmentCountsTwo ==
    (pc = "done" /\ IsLowercase(crate_name)) =>
        \A path \in {index_path.serve, index_path.sync} :
            /\ Len(crate_name) = 1 => DirSegments(path) = 1
            /\ Len(crate_name) = 2 => DirSegments(path) = 1
            /\ Len(crate_name) = 3 => DirSegments(path) = 2
            /\ Len(crate_name) >= 4 => DirSegments(path) = 2
            /\ path[Len(path)] = crate_name

C8_Witness ==
    /\ pc = "done"
    /\ crate_name = <<"a", "b", "a", "b", "a">>
    /\ index_path.serve = << <<"a", "b">>, <<"a", "b">>, crate_name >>

(***************************************************************************)
(* Properties of the registry (SpecSync, Spec)                             *)
(***************************************************************************)
\* The lines of an index file that are one well-formed record.
RecordLines(content) ==
    { i \in 1..Len(lines(content)) : IsRecordLine(lines(content)[i]) }

RecordAt(content, i) == lines(content)[i][1]

Records(content) == { RecordAt(content, i) : i \in RecordLines(content) }

\* The record lines of a file whose vers is v.
VersLines(content, v) ==
    { i \in RecordLines(content) : RecordAt(content, i).vers = v }

\* The index file of a crate: the shard path of the lower-cased name.
IndexFileOf(name) == get_index_path(to_lowercase(name))

SameCrate(n, m) == to_lowercase(n) = to_lowercase(m)

\* The packages the last operation vendored, and the one among those of a
\* crate and version that was written last.
PlannedOf(l) == { l.planned[i] : i \in 1..Len(l.planned) }

IsLastWritten(l, i) ==
    \A j \in (i + 1)..Len(l.planned) :
        ~(SameCrate(l.planned[j].name, l.planned[i].name)
          /\ l.planned[j].vers = l.planned[i].vers)

SyncDone(l, no_delete) ==
    l.op = "sync" /\ l.status = "ok" /\ l.no_delete = no_delete

\* C1 (as stated): after a completed sync with no_delete=false the *.crate
\* files are exactly those of the planned packages, every planned (name,
\* version) has exactly one record in the index file of its crate, and no
\* index file or record exists for a (name, version) that was not planned.
C1_ExactlyPlanned ==
    SyncDone(last, FALSE) =>
        /\ DOMAIN crates =
              { crate_filename(id.name, id.vers) : id \in PlannedOf(last) }
        /\ \A id \in PlannedOf(last) :
              /\ IndexFileOf(id.name) \in DOMAIN index
              /\ Cardinality({ i \in RecordLines(index[IndexFileOf(id.name)]) :
                    /\ RecordAt(index[IndexFileOf(id.name)], i).name = id.name
                    /\ RecordAt(index[IndexFileOf(id.name)], i).vers = id.vers }) = 1
        /\ \A path \in DOMAIN index :
              /\ \E id \in PlannedOf(last) : path = IndexFileOf(id.name)
              /\ \A i \in 1..Len(lines(index[path])) : IsRecordLine(lines(index[path])[i])
              /\ \A r \in Records(index[path]) :
                    \E id \in PlannedOf(last) :
                        /\ id.name = r.name /\ id.vers = r.vers
                        /\ path = IndexFileOf(id.name)

\* C1 (amended): as stated, except that the one record of a planned (name,
\* version) is the record with that vers in the index file of the crate, and
\* its name equals the planned name up to letter case.
C1_ExactlyPlannedUpToCase ==
    SyncDone(last, FALSE) =>
        /\ DOMAIN crates =
              { crate_filename(id.name, id.vers) : id \in PlannedOf(last) }
        /\ \A id \in PlannedOf(last) :
              /\ IndexFileOf(id.name) \in DOMAIN index
              /\ Cardinality(VersLines(index[IndexFileOf(id.name)], id.vers)) = 1
              /\ \A i \in VersLines(index[IndexFileOf(id.name)], id.vers) :
                    SameCrate(RecordAt(index[IndexFileOf(id.name)], i).name, id.name)
        /\ \A path \in DOMAIN index :
              /\ \E id \in PlannedOf(last) : path = IndexFileOf(id.name)
              /\ \A i \in 1..Len(lines(index[path])) : IsRecordLine(lines(index[path])[i])
              /\ \A r \in Records(index[path]) :
                    \E id \in PlannedOf(last) :
                        /\ id.name = r.name /\ id.vers = r.vers
                        /\ path = IndexFileOf(id.name)

\* Two planned packages whose names differ only in case, with one version.
C1_Witness ==
    /\ SyncDone(last, FALSE)
    /\ last.planned = <<Pkg(N_Ab, V100, "registry"), Pkg(N_ab, V100, "registry")>>
    /\ Records(index[IndexFileOf(N_ab)]) = { Rec(N_ab, V100, "cksum") }

\* The index files the packages of l are written to, and the versions
\* written to one of them.
Touched(l) == { IndexFileOf(id.name) : id \in PlannedOf(l) }

PlannedVers(l, path) ==
    { id.vers : id \in { x \in PlannedOf(l) : IndexFileOf(x.name) = path } }

\* C2: a sync with no_delete=true removes no *.crate file; each touched
\* index file holds its previous records, unchanged, except those whose vers
\* is planned for the file, and one record for each planned version;
\* untouched index files are unchanged.
C2_NoDeleteStep ==
    SyncDone(last', TRUE) =>
        /\ \A f \in DOMAIN crates : f \in DOMAIN crates'
        /\ \A path \in DOMAIN index \ Touched(last') :
              path \in DOMAIN index' /\ index'[path] = index[path]
        /\ DOMAIN index' = DOMAIN index \cup Touched(last')
        /\ \A path \in Touched(last') :
              LET before == IF path \in DOMAIN index
                            THEN Records(index[path]) ELSE {}
              IN  /\ \A i \in 1..Len(lines(index'[path])) :
                        IsRecordLine(lines(index'[path])[i])
                  /\ { r \in Records(index'[path]) :
                         r.vers \notin PlannedVers(last', path) }
                       = { r \in before : r.vers \notin PlannedVers(last', path) }
                  /\ \A v \in PlannedVers(last', path) :
                        Cardinality(VersLines(index'[path], v)) = 1
                  /\ \A r \in Records(index'[path]) :
                        r.vers \in PlannedVers(last', path) =>
                            \E id \in PlannedOf(last') :
                                r = registry_pkg(id) /\ IndexFileOf(id.name) = path

C2_NoDeleteKeeps == [][C2_NoDeleteStep]_vars

\* An archive that is not planned is still there, and the index file of a
\* planned package still holds the record of a version that is not planned.
C2_Witness ==
    /\ SyncDone(last, TRUE)
    /\ \E f \in DOMAIN crates :
          \A id \in PlannedOf(last) : f # crate_filename(id.name, id.vers)
    /\ \E path \in Touched(last) :
          /\ path \in DOMAIN index
          /\ \E r \in Records(index[path]) : r.vers \notin PlannedVers(last, path)

\* C3: after completed operations, every archive <name>-<version>.crate has
\* exactly one record with vers = <version> in the index file at the shard
\* path of the lower-cased <name>.
C3_ArchiveHasOneRecord ==
    last.status # "panic" =>
        \A f \in DOMAIN crates :
            /\ IndexFileOf(crates[f].name) \in DOMAIN index
            /\ Cardinality(VersLines(index[IndexFileOf(crates[f].name)],
                                     crates[f].vers)) = 1

\* C4: after sync runs and add operations, no index file contains two
\* records with the same vers, and the record of an incoming (crate,
\* version) is the incoming one.
C4_NoDuplicateVers ==
    /\ \A path \in DOMAIN index :
          \A i, j \in RecordLines(index[path]) :
              RecordAt(index[path], i).vers = RecordAt(index[path], j).vers
                  => i = j
    /\ (last.op \in {"sync", "add"} /\ last.status = "ok") =>
          \A i \in 1..Len(last.planned) :
              IsLastWritten(last, i) =>
                  /\ IndexFileOf(last.planned[i].name) \in DOMAIN index
                  /\ { r \in Records(index[IndexFileOf(last.planned[i].name)]) :
                         r.vers = last.planned[i].vers }
                       = { registry_pkg(last.planned[i]) }

\* Ab 1.0.0 was added before ab 1.0.0: its archive is there, its record has
\* been replaced.
C4_Witness ==
    /\ last.op = "add" /\ last.status = "ok"
    /\ last.planned = <<Pkg(N_ab, V100, "registry")>>
    /\ crate_filename(N_Ab, V100) \in DOMAIN crates
    /\ Rec(N_ab, V100p, "cksum") \in Records(index[IndexFileOf(N_ab)])
    /\ VersLines(index[IndexFileOf(N_ab)], V100) # {}

\* C5: in every reachable state every line of every index file is one
\* complete well-formed record.
C5_EveryLineIsARecord ==
    \A path \in DOMAIN index :
        \A i \in 1..Len(lines(index[path])) :
            IsRecordLine(lines(index[path])[i])

\* C6: a sync that follows a completed sync of the same packages with the
\* same flags leaves every archive, index file and directory as it was.
C6_SecondSyncStep ==
    ( /\ last.op = "sync" /\ last.status = "ok"
      /\ last'.op = "sync" /\ last'.status = "ok"
      /\ last'.planned = last.planned
      /\ last'.no_delete = last.no_delete )
    => (crates' = crates /\ index' = index /\ dirs' = dirs)

C6_SyncIdempotent == [][C6_SecondSyncStep]_vars

\* C7: after a sync or an add, every record is in the index file at the
\* shard path of its lower-cased name, records whose names differ only in
\* case are in one file, and the record of each vendored package carries
\* the package's name as it is spelled.
C7_LowercasePathCasePreserved ==
    /\ \A path \in DOMAIN index :
          \A r \in Records(index[path]) : path = IndexFileOf(r.name)
    /\ \A path, other \in DOMAIN index :
          \A r \in Records(index[path]), q \in Records(index[other]) :
              SameCrate(r.name, q.name) => path = other
    /\ (last.op \in {"sync", "add"} /\ last.status = "ok") =>
          \A i \in 1..Len(last.planned) :
              /\ IndexFileOf(last.planned[i].name) \in DOMAIN index
              /\ IsLastWritten(last, i) =>
                    \E r \in Records(index[IndexFileOf(last.planned[i].name)]) :
                        /\ r.name = last.planned[i].name
                        /\ r.vers = last.planned[i].vers

\* Ab and ab, another version, in one file under the lower-cased name.
C7_Witness ==
    /\ last.op = "sync" /\ last.status = "ok"
    /\ Pkg(N_Ab, V100, "registry") \in PlannedOf(last)
    /\ << <<"2">>, N_ab >> \in DOMAIN index
    /\ Rec(N_Ab, V100, "cksum") \in Records(index[<< <<"2">>, N_ab >>])
    /\ Rec(N_ab, V100p, "cksum") \in Records(index[<< <<"2">>, N_ab >>])

(***************************************************************************)
(* Properties of the server (SpecServe)                                    *)
(***************************************************************************)
\* The archive file g is a version of the crate called name.
IsArchiveOf(g, name) ==
    \E k \in 1..Len(g) :
        IsNameDashVers(g, k) /\ NameAt(g, k) = name /\ ~HasDot(name)

\* The step is a request to the archive handler that downloaded the archive.
Downloaded(l) ==
    /\ l.op = "crate" /\ l.status = "200"
    /\ l.http.upstream # <<>>

\* C11: in clean mode, after a successful proxied download of
\* <name>-<version>.crate no other archive of <name> remains, and the
\* archives of other names are as they were.
C11_CleanStep ==
    (Downloaded(last') /\ last'.http.clean) =>
        \A name \in { NameAt(last'.http.request, k) :
                        k \in 1..Len(last'.http.request) } :
            IsArchiveOf(last'.http.request, name) =>
                /\ \A g \in DOMAIN crates' :
                      IsArchiveOf(g, name) => g = last'.http.request
                /\ \A g \in DOMAIN crates :
                      ~IsArchiveOf(g, name) =>
                          g \in DOMAIN crates' /\ crates'[g] = crates[g]

C11_CleanKeepsOneVersion == [][C11_CleanStep]_vars

\* The number of ".." among the first n components of a path, and of the
\* other components.
RECURSIVE Ups(_, _)
Ups(rel, n) ==
    IF n = 0 THEN 0
    ELSE Ups(rel, n - 1) + (IF rel[n] = DotDot THEN 1 ELSE 0)

\* Resolving the path below R leaves R: at some point it has gone up more
\* often than down.
LeavesRegistry(rel) ==
    \E n \in 1..Len(rel) : Ups(rel, n) > n - Ups(rel, n)

\* C12: the fallback handler answers a request whose path leaves R with 403
\* and reads no file.
C12_TraversalForbidden ==
    (last.op = "file" /\ LeavesRegistry(last.http.request)) =>
        /\ last.status = "403"
        /\ ~last.http.local_read
        /\ last.http.body = <<>>

\* C13: with proxy disabled the index handler answers 200 with the bytes of
\* the local index file of the requested crate, as text/plain, when the file
\* exists and 404 otherwise; it sends nothing upstream and changes neither
\* the cache map nor a file under R.
C13_LocalOnlyStep ==
    (last'.op = "index" /\ ~last'.http.proxy) =>
        /\ IF IndexFileOf(last'.http.request) \in DOMAIN index
           THEN /\ last'.status = "200"
                /\ last'.http.body = index[IndexFileOf(last'.http.request)]
                /\ last'.http.ctype = "text/plain"
           ELSE last'.status = "404"
        /\ last'.http.upstream = <<>>
        /\ index_cache' = index_cache
        /\ crates' = crates /\ index' = index /\ dirs' = dirs

C13_LocalOnlyWithoutProxy == [][C13_LocalOnlyStep]_vars

\* A request spelled with an upper-case letter is answered from the file
\* under the lower-cased name.
C13_Witness ==
    /\ last.op = "index" /\ ~last.http.proxy
    /\ last.http.request = N_Ab
    /\ last.status = "200"
    /\ << <<"2">>, N_ab >> \in DOMAIN index
    /\ last.http.body = index[<< <<"2">>, N_ab >>]

\* The step is a request to the handler op: every handler records its exchange
\* in last, and only the clock moves without one.
Handles(op) == last'.op = op /\ now' = now

\* C14: the archive handler answers a request for a filename ending in
\* ".crate" that exists under R with 200 and the bytes of the file, as
\* application/octet-stream, sends nothing upstream and leaves R as it was,
\* whatever the proxy and clean flags; it answers 404 when the file is absent
\* and proxy is disabled, and 404 for a filename not ending in ".crate".
C14_ArchiveStep ==
    Handles("crate") =>
        LET f == last'.http.request
        IN  /\ (ends_with(f, DotCrate) /\ f \in DOMAIN crates) =>
                  /\ last'.status = "200"
                  /\ last'.http.body = <<crates[f]>>
                  /\ last'.http.ctype = "application/octet-stream"
                  /\ last'.http.upstream = <<>>
                  /\ crates' = crates /\ index' = index /\ dirs' = dirs
            /\ (f \notin DOMAIN crates /\ ~last'.http.proxy) =>
                  last'.status = "404"
            /\ ~ends_with(f, DotCrate) => last'.status = "404"

C14_ArchiveServedLocally == [][C14_ArchiveStep]_vars

\* An archive with a pre-release version is answered from R by a server with
\* both flags set.
C14_Witness ==
    /\ last.op = "crate" /\ last.status = "200"
    /\ last.http.proxy /\ last.http.clean
    /\ last.http.request = crate_filename(N_ab, V100p)
    /\ last.http.upstream = <<>>
    /\ last.http.body = <<CrateBytes(N_ab, V100p)>>

\* C15: the archive handler answers 400 exactly when proxy is enabled, the
\* requested filename ends in ".crate", the file is absent from R and the
\* filename is not <name>-<semver>.crate for any split; in that case it sends
\* nothing upstream and writes nothing.
C15_BadRequestStep ==
    Handles("crate") =>
        LET f == last'.http.request
        IN  /\ last'.status = "400" <=>
                  /\ last'.http.proxy
                  /\ ends_with(f, DotCrate)
                  /\ f \notin DOMAIN crates
                  /\ QualifyingDashes(f) = {}
            /\ last'.status = "400" =>
                  /\ last'.http.upstream = <<>>
                  /\ crates' = crates /\ index' = index /\ dirs' = dirs

C15_BadRequestIffUnparsable == [][C15_BadRequestStep]_vars

\* "ab.crate" has the suffix and no dash.
C15_Witness ==
    /\ last.op = "crate" /\ last.status = "400"
    /\ last.http.request = N_ab \o DotCrate
    /\ last.http.proxy
    /\ crates # <<>>

\* The cache holds an entry for the crate of the request that was checked
\* less than cache_ttl ago.
FreshEntry(cache, segment, t) ==
    /\ to_lowercase(segment) \in DOMAIN cache
    /\ t - cache[to_lowercase(segment)].last_check < cache_ttl

\* C16: with proxy enabled, when the cache holds an entry for the requested
\* crate with now - last_check < ttl, the index handler answers the cached
\* bytes, sends nothing upstream, reads no local file and leaves the cache
\* entry, content and last_check, as it was.
C16_FreshStep ==
    (/\ Handles("index")
     /\ last'.http.proxy
     /\ FreshEntry(index_cache, last'.http.request, now)) =>
        LET name == to_lowercase(last'.http.request)
        IN  /\ last'.status = "200"
            /\ last'.http.body = index_cache[name].content
            /\ last'.http.ctype = "text/plain"
            /\ last'.http.upstream = <<>>
            /\ ~last'.http.local_read
            /\ name \in DOMAIN index_cache'
            /\ index_cache'[name] = index_cache[name]

C16_FreshCacheIsServed == [][C16_FreshStep]_vars

\* An entry made after the clock has moved answers a request spelled in upper
\* case while a local index file exists.
C16_Witness ==
    /\ last.op = "index" /\ last.http.proxy
    /\ last.http.request = N_Ab
    /\ last.http.upstream = <<>>
    /\ ~last.http.local_read
    /\ FreshEntry(index_cache, N_Ab, now)
    /\ last.http.body = index_cache[N_ab].content
    /\ IndexFileOf(N_Ab) \in DOMAIN index
    /\ now > 0

\* The upstream requests of an exchange that were not answered successfully.
Unanswered(sent) == { i \in 1..Len(sent) : ~sent[i].ok }

\* C17: bounded freshness.  The cache holds an entry for a crate only after a
\* successful upstream response for it; from then on, and until the next
\* successful response, at most one upstream index request for the crate is
\* issued within a window of length cache_ttl.  One index request is handled
\* within such a window, so it leaves at most one request unanswered.
C17_BoundedStep ==
    (/\ Handles("index")
     /\ to_lowercase(last'.http.request) \in DOMAIN index_cache) =>
        Cardinality(Unanswered(last'.http.upstream)) <= 1

C17_BoundedFreshness == [][C17_BoundedStep]_vars

\* The cache holds an entry for the crate of the request that was checked
\* cache_ttl ago or earlier.
StaleEntry(cache, segment, t) ==
    /\ to_lowercase(segment) \in DOMAIN cache
    /\ t - cache[to_lowercase(segment)].last_check >= cache_ttl

\* C18: when the cache holds a stale entry for the crate and the bounded
\* refresh fails, the index handler answers the request with the cached
\* content and sends no further upstream request.
C18_StaleStep ==
    (/\ Handles("index")
     /\ last'.http.proxy
     /\ StaleEntry(index_cache, last'.http.request, now)
     /\ last'.http.upstream # <<>>
     /\ last'.http.upstream[1] = Sent("refresh", FALSE)) =>
        /\ last'.status = "200"
        /\ last'.http.body =
              index_cache[to_lowercase(last'.http.request)].content
        /\ Len(last'.http.upstream) = 1

C18_StaleCacheIsServed == [][C18_StaleStep]_vars

\* C19: no index request, whatever the proxy flag and the upstream outcome,
\* creates or modifies a file or a directory under R.
C19_IndexRequestStep ==
    Handles("index") =>
        crates' = crates /\ index' = index /\ dirs' = dirs

C19_IndexRequestsWriteNothing == [][C19_IndexRequestStep]_vars

(***************************************************************************)
(* Properties of add (Spec)                                                *)
(***************************************************************************)

\* C20: adding a crate deletes or rewrites no existing *.crate file of another
\* (name, version), removes no index file, leaves the index files of other
\* crates as they were, and removes from the index file it touches no record
\* whose vers differs from the version being added.  An add with dependency
\* recursion is a sequence of such steps, one per crate added.
C20_AddStep ==
    Handles("add") =>
        LET id  == last'.planned[1]
            dst == crate_filename(id.name, id.vers)
        IN  /\ \A f \in DOMAIN crates \ {dst} :
                  f \in DOMAIN crates' /\ crates'[f] = crates[f]
            /\ \A path \in DOMAIN index :
                  /\ path \in DOMAIN index'
                  /\ path # IndexFileOf(id.name) => index'[path] = index[path]
                  /\ { r \in Records(index[path]) : r.vers # id.vers }
                        \subseteq Records(index'[path])
                  /\ { i \in 1..Len(lines(index[path])) :
                         ~IsRecordLine(lines(index[path])[i]) } # {}
                        => index'[path] = index[path]

C20_AddDisturbsNothingElse == [][C20_AddStep]_vars

\* ab 1.0.0-1 is added to a registry that holds ab 1.0.0, with its record,
\* and the archive of Ab 1.0.0.
C20_Witness ==
    /\ last.op = "add" /\ last.status = "ok"
    /\ last.planned = <<Pkg(N_ab, V100p, "registry")>>
    /\ crate_filename(N_ab, V100) \in DOMAIN crates
    /\ crate_filename(N_Ab, V100) \in DOMAIN crates
    /\ IndexFileOf(N_ab) \in DOMAIN index
    /\ Rec(N_ab, V100, "cksum") \in Records(index[IndexFileOf(N_ab)])
    /\ Rec(N_ab, V100p, "cksum") \in Records(index[IndexFileOf(N_ab)])

(***************************************************************************)
(* Properties of the sync engine, continued (SpecSync)                     *)
(***************************************************************************)

\* C21: the archive built for a git package depends on the names and the
\* contents of the package's files only: whatever the metadata of the
\* checkout, its entry headers carry mtime 0 and uid/gid 0 (the stamp 0), so
\* two runs over checkouts that differ in metadata write the same bytes.
C21_GitArchiveDeterministic ==
    (last.op = "sync" /\ last.status = "ok") =>
        \A i \in 1..Len(last.planned) :
            last.planned[i].source = "git" =>
                LET f == crate_filename(last.planned[i].name,
                                        last.planned[i].vers)
                IN  (f \in DOMAIN crates /\ crates[f].kind = "archive") =>
                        crates[f] = ArchiveBytes(last.planned[i].name,
                                                 last.planned[i].vers, 0)

\* The directory d below R/index has an entry: a file or a directory.
HasEntries(d) ==
    \/ \E p \in DOMAIN index : IsChildOf(p, d)
    \/ \E e \in dirs : IsChildOf(e, d)

\* C22: after the sweep of a sync with no_delete=false no directory below
\* R/index is empty, no file within three levels below R/index is another
\* than an index file written in this run, R/index itself exists, and every
\* index file written in this run is there.
C22_SweepLeavesOnlyThisRun ==
    SyncDone(last, FALSE) =>
        /\ \A d \in dirs : d # <<>> => HasEntries(d)
        /\ \A p \in DOMAIN index : Len(p) <= 3 => p \in Touched(last)
        /\ <<>> \in dirs
        /\ Touched(last) \subseteq DOMAIN index

\* A sync that vendors nothing leaves R/index, empty, and no archive.
C22_Witness ==
    /\ SyncDone(last, FALSE)
    /\ last.planned = <<>>
    /\ dirs = { <<>> }
    /\ index = <<>>
    /\ crates = <<>>

(***************************************************************************)
(* Properties of the server, continued (SpecServe)                         *)
(***************************************************************************)

\* C23: with proxy enabled, an index request for a crate that has no local
\* index file is answered 200 or 404, never 500, whatever the upstream does.
C23_NoLocalStep ==
    (/\ Handles("index")
     /\ last'.http.proxy
     /\ IndexFileOf(last'.http.request) \notin DOMAIN index) =>
        last'.status \in {"200", "404"}

C23_Never500WithoutLocalFile == [][C23_NoLocalStep]_vars

\* C24: when the bounded refresh is answered 2xx with a complete body, the
\* cache entry of the lower-cased crate name becomes {content = that body,
\* last_check = now}, the other entries stay, the response carries that body,
\* and no file under R is read or written.
C24_RefreshedStep ==
    (/\ Handles("index")
     /\ last'.http.upstream # <<>>
     /\ last'.http.upstream[1] = Sent("refresh", TRUE)) =>
        LET name == to_lowercase(last'.http.request)
        IN  /\ last'.status = "200"
            /\ last'.http.body = UpstreamIndexBody(name)
            /\ DOMAIN index_cache' = DOMAIN index_cache \cup {name}
            /\ index_cache'[name] =
                  [content |-> last'.http.body, last_check |-> now]
            /\ \A other \in DOMAIN index_cache \ {name} :
                  index_cache'[other] = index_cache[other]
            /\ Len(last'.http.upstream) = 1
            /\ ~last'.http.local_read
            /\ crates' = crates /\ index' = index /\ dirs' = dirs

C24_RefreshFillsCache == [][C24_RefreshedStep]_vars

\* A stale entry was replaced after the clock had moved, by a request spelled
\* in upper case, while a local index file exists.
C24_Witness ==
    /\ last.op = "index" /\ last.status = "200"
    /\ last.http.request = N_Ab
    /\ last.http.upstream = <<Sent("refresh", TRUE)>>
    /\ now > 0
    /\ N_ab \in DOMAIN index_cache
    /\ index_cache[N_ab] = [content |-> last.http.body, last_check |-> now]
    /\ IndexFileOf(N_ab) \in DOMAIN index
    /\ last.http.body # index[IndexFileOf(N_ab)]

\* C25: when the bounded refresh fails, an entry that exists keeps its content
\* and has its last_check set to now, no entry is made when none exists, the
\* other entries stay, and the local index file is read: when it exists it is
\* the answer, with status 200, and nothing more is sent upstream.
C25_RefreshFailedStep ==
    (/\ Handles("index")
     /\ last'.http.upstream # <<>>
     /\ last'.http.upstream[1] = Sent("refresh", FALSE)) =>
        LET name == to_lowercase(last'.http.request)
            path == IndexFileOf(last'.http.request)
        IN  /\ DOMAIN index_cache' = DOMAIN index_cache
            /\ name \in DOMAIN index_cache =>
                  index_cache'[name] =
                      [content    |-> index_cache[name].content,
                       last_check |-> now]
            /\ \A other \in DOMAIN index_cache \ {name} :
                  index_cache'[other] = index_cache[other]
            /\ last'.http.local_read
            /\ path \in DOMAIN index =>
                  /\ last'.status = "200"
                  /\ last'.http.body = index[path]
                  /\ last'.http.ctype = "text/plain"
                  /\ Len(last'.http.upstream) = 1
                  /\ crates' = crates /\ index' = index /\ dirs' = dirs

C25_FailedRefreshFallsBack == [][C25_RefreshFailedStep]_vars

\* The refresh of a stale entry failed after the clock had moved; the answer
\* is the local index file, which differs from the entry's content.
C25_Witness ==
    /\ last.op = "index" /\ last.status = "200"
    /\ last.http.upstream = <<Sent("refresh", FALSE)>>
    /\ last.http.local_read
    /\ N_ab \in DOMAIN index_cache
    /\ index_cache[N_ab].last_check = now /\ now > 0
    /\ to_lowercase(last.http.request) = N_ab
    /\ IndexFileOf(N_ab) \in DOMAIN index
    /\ last.http.body = index[IndexFileOf(N_ab)]
    /\ last.http.body # index_cache[N_ab].content

(***************************************************************************)
(* Properties of concurrent index requests (SpecInflight)                  *)
(***************************************************************************)

\* C26 (state): the content of every cache entry is a body the upstream has
\* sent in full for that crate.
C26_CacheHoldsWholeBodies ==
    \A name \in DOMAIN index_cache :
        <<name, index_cache[name].content>> \in answered

\* Some handler's refresh ends in this step with its whole body, for this
\* crate and with this content.
RefreshCompletes(name, content) ==
    \E h \in Handlers :
        /\ inflight[h].pc = "body" /\ inflight'[h].pc = "idle"
        /\ to_lowercase(inflight[h].segment) = name
        /\ inflight[h].received = Len(inflight[h].full)
        /\ inflight[h].full = content

\* C26 (step): an entry is made, or its content changed, only by a refresh
\* that ends with its whole body, and to that body; a refresh that failed,
\* timed out or was cancelled changes the content of no entry; no entry is
\* removed.
C26_CacheStep ==
    /\ DOMAIN index_cache \subseteq DOMAIN index_cache'
    /\ \A name \in DOMAIN index_cache' :
          (\/ name \notin DOMAIN index_cache
           \/ index_cache'[name].content # index_cache[name].content) =>
              RefreshCompletes(name, index_cache'[name].content)

\* C26: in every reachable state, under every interleaving of index requests
\* that fail, time out or are cancelled at their suspension points, each
\* cache entry holds a whole upstream body of its crate, and it got there by
\* a refresh that received all of it.
C26_CacheNeverPartial ==
    []C26_CacheHoldsWholeBodies /\ [][C26_CacheStep]_vars

\* Two refreshes of one key race: the entry holds the newer body, written by
\* one handler, while the other handler is still receiving the older one.
C26_Witness ==
    /\ <<"a", "b">> \in DOMAIN index_cache
    /\ index_cache[<<"a", "b">>].content = UpstreamBodyAt(<<"a", "b">>, 2)
    /\ \E h \in Handlers :
          /\ inflight[h].pc = "body"
          /\ inflight[h].full = UpstreamBodyAt(<<"a", "b">>, 1)
          /\ inflight[h].received = 1

(***************************************************************************)
(* Properties of the per-version index cacher (SpecServe)                  *)
(***************************************************************************)

\* The step is an archive request that downloaded the archive and whose
\* cacher fetched the upstream index, on a server with the given clean flag.
Cached(clean) ==
    /\ Handles("crate")
    /\ last'.http.clean = clean
    /\ last'.http.upstream = <<Sent("download", TRUE), Sent("index", TRUE)>>

\* The crate and the version of the archive requested, and the local index
\* file of that crate.
RequestedName == parse_crate_filename(last'.http.request)[1][1]
RequestedVers == parse_crate_filename(last'.http.request)[1][2]
CacherFile    == IndexFileOf(RequestedName)

FileOrEmpty(idx, path) == IF path \in DOMAIN idx THEN idx[path] ELSE <<>>

\* C27: in non-clean mode the cacher leaves the local index file unchanged
\* when it has a record of the requested version; otherwise it adds exactly
\* one record, the upstream line of that version, and every record that was
\* there is still there.
C27_AdditiveStep ==
    Cached(FALSE) =>
        LET before == FileOrEmpty(index, CacherFile)
            after  == FileOrEmpty(index', CacherFile)
            line   == Rec(UpstreamName(to_lowercase(RequestedName)),
                          RequestedVers, "upstream")
        IN  IF \E r \in Records(before) : r.vers = RequestedVers
            THEN index' = index
            ELSE /\ Records(after) = Records(before) \cup {line}
                 /\ Len(lines(after)) = Len(lines(before)) + 1
                 /\ \A i \in 1..Len(lines(after)) : IsRecordLine(lines(after)[i])

C27_CacherIsAdditive == [][C27_AdditiveStep]_vars

\* C28: in clean mode, after the cacher succeeded for (name, version) the
\* local index file of the crate holds exactly one record, of that version;
\* when the cacher's fetch of the upstream index failed the index files are
\* left as they were.
C28_CleanStep ==
    /\ Cached(TRUE) =>
          /\ CacherFile \in DOMAIN index'
          /\ Len(lines(index'[CacherFile])) = 1
          /\ \E r \in Records(index'[CacherFile]) : r.vers = RequestedVers
    /\ (/\ Handles("crate")
        /\ last'.http.clean
        /\ last'.http.upstream = <<Sent("download", TRUE), Sent("index", FALSE)>>)
          => index' = index

C28_CleanKeepsOneRecord == [][C28_CleanStep]_vars

\* C29: when the archive handler turns to the upstream and the download brings
\* nothing back, a response outside 2xx is answered 404 and a transport or
\* body error is answered 500, and in both cases the archives, the index
\* files and the directories of R are what they were, the other versions of
\* the crate included when the server runs in clean mode.
C29_DownloadFailed(why) ==
    /\ Handles("crate")
    /\ last'.http.upstream = <<Failed("download", why)>>

C29_FailedDownloadStep ==
    /\ C29_DownloadFailed("status") => last'.status = "404"
    /\ C29_DownloadFailed("error") => last'.status = "500"
    /\ \A why \in {"status", "error"} :
          C29_DownloadFailed(why) =>
              /\ crates' = crates
              /\ index' = index
              /\ dirs' = dirs
              /\ last'.http.body = <<>>

AllTasksCompleted(l, cs) ==
    \A i \in 1..Len(l.planned) :
        LET f == crate_filename(l.planned[i].name, l.planned[i].vers)
        IN  /\ f \in DOMAIN cs
            /\ cs[f].name = l.planned[i].name
            /\ cs[f].vers = l.planned[i].vers
            /\ cs[f].kind \in {"crate", "archive"}

\* C30: a sync run writes index files and sweeps only when every one of its
\* file tasks has completed; a run with a file task that failed ends with an
\* error, leaves every index file and every directory as it was, and removes
\* no archive.
C30_SyncStep ==
    Handles("sync") =>
        /\ (index' # index \/ dirs' # dirs
               \/ \E f \in DOMAIN crates : f \notin DOMAIN crates')
             => /\ last'.status # "error"
                /\ AllTasksCompleted(last', crates')
        /\ last'.status = "error" =>
              /\ index' = index
              /\ dirs' = dirs
              /\ \A f \in DOMAIN crates : f \in DOMAIN crates'
        /\ last'.status = "ok" => AllTasksCompleted(last', crates')

C30_Phase3AfterPhase2 == [][C30_SyncStep]_vars

\* A sweeping run of two packages failed after one of its file tasks had
\* written its archive: the archive has no record, and an archive that the
\* run did not plan is still in R.
C30_Witness ==
    /\ last.op = "sync"
    /\ last.status = "error"
    /\ ~last.no_delete
    /\ Len(last.planned) = 2
    /\ \E i \in 1..Len(last.planned) :
          LET f == crate_filename(last.planned[i].name, last.planned[i].vers)
          IN  /\ f \in DOMAIN crates
              /\ crates[f].kind = "crate"
              /\ \/ main_get_index_path(last.planned[i].name) \notin DOMAIN index
                 \/ VersLines(index[main_get_index_path(last.planned[i].name)],
                              last.planned[i].vers) = {}
    /\ \E f \in DOMAIN crates :
          \A i \in 1..Len(last.planned) :
              f # crate_filename(last.planned[i].name, last.planned[i].vers)

(***************************************************************************)
(* Properties of the file tasks of a sync run (SpecSync)                   *)
(***************************************************************************)

\* C31: the file tasks of a sync run have pairwise distinct destinations:
\* no two packages that the run planned have the same archive file name.
C31_DistinctDestinations ==
    last.op = "sync" =>
        \A i, j \in 1..Len(last.planned) :
            i # j => crate_filename(last.planned[i].name, last.planned[i].vers)
                       # crate_filename(last.planned[j].name, last.planned[j].vers)

(***************************************************************************)
(* Properties of index files read while they are rewritten (SpecRewrite)   *)
(***************************************************************************)

\* C32: an index request answered while add rewrites the index file of the
\* requested crate sees the file as it was before the update or as it is
\* after it: 200 with the whole previous contents or the whole new contents,
\* or 404 when there was no file before.
C32_ReadDuringRewrite ==
    LET w == inflight[Writer]
    IN  ( /\ Handles("index")
          /\ w.pc = "write"
          /\ main_get_index_path(w.id.name)
                = get_index_path(to_lowercase(last'.http.request)) )
        => \/ /\ last'.status = "200"
              /\ \/ last'.http.body = w.full
                 \/ w.prev # None /\ last'.http.body = w.prev[1]
           \/ /\ last'.status = "404"
              /\ w.prev = None

C32_IndexUpdateIsAtomic == [][C32_ReadDuringRewrite]_vars

(***************************************************************************)
(* Properties of archive requests handled at once (SpecRace)               *)
(***************************************************************************)

\* C33: with requests for one missing archive handled at once, every 200
\* response carries exactly the upstream bytes of the archive, and once all
\* requests are answered every archive in R holds exactly its upstream
\* bytes.
C33_LastWriterWinsIsSafe ==
    /\ \A a \in answered : a[2] = ContentOf(a[1])
    /\ (\A h \in Handlers : inflight[h].pc = "idle") =>
           \A f \in DOMAIN crates : crates[f] = ContentOf(f)

\* C34: the write of a per-version cacher keeps every record that is in the
\* index file when it writes: no record appended by the cacher of another
\* request is lost, so that after two requests for two versions, both with a
\* cacher that succeeded, the file has a record for each version.
C34_CacherWrites ==
    \A h \in Handlers :
        (inflight[h].pc = "cache" /\ inflight'[h].pc = "idle") =>
            LET path == get_index_path(parse_crate_filename(inflight[h].segment)[1][1])
            IN  path \in DOMAIN index =>
                    \A r \in Records(index[path]) : r \in Records(index'[path])

C34_NoCachedRecordLost == [][C34_CacherWrites]_vars

(***************************************************************************)
(* Properties of the two path sharders, continued (SpecShard)              *)
(***************************************************************************)

\* C35: for every crate name, the path the per-version cacher writes (the
\* serve engine's sharder on the name as requested), the path the index
\* handler reads (the same sharder on the lower-cased segment) and the path
\* sync and add write are one path, the shard path of the lower-cased name.
C35_EnginesAgreeOnPath ==
    pc = "done" =>
        /\ index_path.serve = get_index_path(to_lowercase(crate_name))
        /\ index_path.sync = get_index_path(to_lowercase(crate_name))

(***************************************************************************)
(* Properties of the index handler under every path (SpecIndexPaths)       *)
(***************************************************************************)

\* C36: every request to the index handler is answered, with status 200,
\* 404 or 500, whatever the last segment of its path.
C36_IndexRequestsAreAnswered ==
    last.op = "index" => last.status \in {"200", "404", "500"}

(***************************************************************************)
(* Properties of the index files that sync and add write (Spec)            *)
(***************************************************************************)

\* Records at the odd positions, in ascending byte order, with one newline
\* between two of them: no empty line, no line of two records, no newline at
\* either end.
SortedAndJoined(content) ==
    /\ Len(content) % 2 = 1
    /\ \A i \in 1..Len(content) : (content[i] = NL) <=> (i % 2 = 0)
    /\ \A i \in 1..Len(content) :
          (i % 2 = 1 /\ i + 2 <= Len(content)) =>
              ~RecLess(content[i + 2], content[i])

\* The index files a sync or add step has written: those that changed and,
\* when the run completed, those of all its packages.
WrittenBySyncOrAdd ==
    { path \in DOMAIN index' : path \notin DOMAIN index \/ index'[path] # index[path] }
      \cup (IF last'.status = "ok"
            THEN { main_get_index_path(last'.planned[i].name) :
                     i \in 1..Len(last'.planned) }
            ELSE {})

\* C37: every index file that a sync or add step has written holds its
\* records in ascending order of their lines, joined by single newlines,
\* whatever the file held before.
C37_UpdateStep ==
    (Handles("sync") \/ Handles("add")) =>
        \A path \in WrittenBySyncOrAdd :
            /\ path \in DOMAIN index'
            /\ SortedAndJoined(index'[path])

C37_UpdatesSortAndJoin == [][C37_UpdateStep]_vars

\* add has rewritten a file that the server had written in the upstream's
\* order and with a final newline: the upstream's record of 1.0.0, which was
\* last, is first.
C37_Witness ==
    /\ last.op = "add" /\ last.status = "ok"
    /\ IndexFileOf(N_ab) \in DOMAIN index
    /\ index[IndexFileOf(N_ab)]
          = << Rec(N_Ab, V100, "upstream"), NL, Rec(N_ab, V100p, "cksum") >>

(***************************************************************************)
(* Properties of the order of the index updates (SpecOrder)                *)
(***************************************************************************)

\* The packages of a plan differ in lower-cased name or in version.
UniquePairs(planned) ==
    \A i, j \in 1..Len(planned) :
        i # j => \/ to_lowercase(planned[i].name) # to_lowercase(planned[j].name)
                 \/ planned[i].vers # planned[j].vers

\* The index files after Phase 3 of a run over the packages in the order
\* planned, on the registry as it is.
Phase3Result(planned, no_delete) ==
    phase3([index |-> index, dirs |-> dirs, panicked |-> FALSE],
           package_metadata(planned, TRUE), 1, {}, no_delete).index

\* C38: the index files that Phase 3 of a sync run leaves are those it
\* leaves for every other order of the same packages, on the same registry
\* and with the same no_delete, when the packages differ in lower-cased name
\* or version.
C38_SyncStep ==
    (Handles("sync") /\ UniquePairs(last'.planned)) =>
        \A f \in Permutations(1..Len(last'.planned)) :
            Phase3Result([i \in 1..Len(last'.planned) |-> last'.planned[f[i]]],
                         last'.no_delete)
              = Phase3Result(last'.planned, last'.no_delete)

C38_OrderIndependent == [][C38_SyncStep]_vars

(***************************************************************************)
(* Properties of add with dependencies (SpecDeps)                          *)
(***************************************************************************)

\* The dependency dep of the crate called name is one that add follows.
FollowedFrom(name, dep) ==
    /\ name \in DOMAIN dependencies
    /\ \E i \in 1..Len(dependencies[name]) :
          /\ dependencies[name][i] = dep
          /\ dep.kind \in {"none", "normal"}

\* No pair was added twice, and every pair but the first is a normal
\* dependency of a crate added before it, under the name of its package.
C39_AddedOnceAndFollowed ==
    /\ \A i, j \in 1..Len(added) : i # j => added[i] # added[j]
    /\ \A k \in 2..Len(added) :
          \E j \in 1..(k - 1), d \in 1..Len(DepPool) :
              /\ FollowedFrom(added[j][1], DepPool[d])
              /\ added[k] = << IF DepPool[d].package # None
                               THEN DepPool[d].package[1]
                               ELSE DepPool[d].name,
                               DepPool[d].req >>

\* add has returned without error, and every normal dependency of a crate
\* it added was added, a renamed one under the name of its package.
C39_RenamedAreFollowed ==
    (pc = "done" /\ last.status = "ok") =>
        \A k \in 1..Len(added), d \in 1..Len(DepPool) :
            FollowedFrom(added[k][1], DepPool[d]) =>
                \E j \in 1..Len(added) :
                    added[j] = << IF DepPool[d].package # None
                                  THEN DepPool[d].package[1]
                                  ELSE DepPool[d].name,
                                  DepPool[d].req >>

\* C39: add with dependencies ends for every dependency relation, cyclic
\* ones included; it adds each pair of name and requirement at most once,
\* follows normal dependencies only, and it follows a renamed dependency,
\* under the name of its package.
C39_AddWithDepsTerminates ==
    /\ []C39_AddedOnceAndFollowed
    /\ []C39_RenamedAreFollowed
    /\ <>(pc = "done")

\* A file name that names a direct child of R: one component, which is not
\* "..".
DirectChild(f) ==
    /\ components(f, <<>>) = <<f>>
    /\ f # DotDot

C40_ArchiveStep ==
    Handles("crate") =>
        /\ \A g \in DOMAIN crates' : DirectChild(g)
        /\ last'.http.body # <<>> =>
              \E g \in DOMAIN crates' :
                 last'.http.body = <<crates'[g]>>

\* C40: every file the archive handler reads and serves, writes or removes
\* is a direct child of R, whatever the decoded file name of the request.
C40_ArchiveHandlerStaysInR == [][C40_ArchiveStep]_vars

====
